---- MODULE Spec2Model ----
(***************************************************************************)
(* TransInferSim STL monitoring and STL-guided design-space exploration.   *)
(*                                                                         *)
(* The module models three layers of src/analyzer/stl:                     *)
(*   - STLSpecification (core/specification.py) with the validation        *)
(*     helpers of STLDebugger (utils/debug.py),                            *)
(*   - SignalExtractor (signals/signal_extractor.py) and the Monitor       *)
(*     (monitors/base_monitor.py, monitors/offline_monitor.py),            *)
(*   - ConstraintBasedDSE (dse/constraint_checker.py) and the orderings of *)
(*     RobustnessRanker (dse/robustness_ranker.py).                        *)
(*                                                                         *)
(* Python values are represented as follows.  A dict is a function from    *)
(* strings; a list is a sequence; a float metric is an integer (the        *)
(* metrics are only added, subtracted and compared); an arithmetic mean is *)
(* the exact fraction [num, den]; float('-inf') is the integer NegInf,     *)
(* which lies below every robustness the model can produce; an exception   *)
(* is a record naming its Python type and what its message holds.          *)
(***************************************************************************)
EXTENDS Integers, Sequences, FiniteSets, TLC

VARIABLES
    rtamt_installed,   \* whether "import rtamt" succeeds in this process
    parsed,            \* STLSpecification._parsed, per Specification object
    constraints,       \* ConstraintBasedDSE.constraints
    results_cache,     \* ConstraintBasedDSE.results_cache
    pc,                \* position of the caller in explore_design_space
    hw_configs,        \* explore_design_space: its argument
    idx,               \* explore_design_space: the loop index (1-based)
    results,           \* explore_design_space: the local list, then the return value
    sims,              \* history: what the simulation collaborator did for
                       \* hw_configs[1..idx-1] in this run
    specifications,    \* the stand-alone Monitor: BaseSTLMonitor.specifications
    mon_results,       \* the stand-alone Monitor: BaseSTLMonitor.results
    mon_evaluated,     \* the stand-alone Monitor: BaseSTLMonitor._evaluated
    last_ok,           \* history: the stats of the last successful evaluate
                       \* since construction or reset, or NoStats
    tasks,             \* two tasks that evaluate and query Monitors side by
                       \* side, or NoTasks
    ret                \* what the last completed call returned or raised

vars == <<rtamt_installed, parsed, constraints, results_cache, pc, hw_configs,
          idx, results, sims, specifications, mon_results, mon_evaluated, last_ok,
          tasks, ret>>

----------------------------------------------------------------------------
(* Bounds of the model *)

\* longest hw_configs list handed to explore_design_space
MaxConfigs == 2

\* longest config_names list handed to compare_configs
MaxNames == 2

----------------------------------------------------------------------------
(* Python helpers *)

\* dict.get(key, default)
Get(d, k, default) == IF k \in DOMAIN d THEN d[k] ELSE default

\* dict.update(other): the entries of other replace those of d
Update(d, other) ==
    [k \in DOMAIN d \cup DOMAIN other |-> IF k \in DOMAIN other THEN other[k] ELSE d[k]]

\* the value None
None == [none |-> TRUE]

\* float('-inf')
NegInf == -1000

RECURSIVE SumSeq(_)
SumSeq(s) == IF s = <<>> THEN 0 ELSE Head(s) + SumSeq(Tail(s))

RECURSIVE MinSeq(_)
MinSeq(s) ==
    IF Len(s) = 1 THEN s[1]
    ELSE LET m == MinSeq(Tail(s)) IN IF s[1] <= m THEN s[1] ELSE m

RECURSIVE MaxSeq(_)
MaxSeq(s) ==
    IF Len(s) = 1 THEN s[1]
    ELSE LET m == MaxSeq(Tail(s)) IN IF s[1] >= m THEN s[1] ELSE m

\* [f(x) for x in s]
MapSeq(s, f(_)) == [k \in 1..Len(s) |-> f(s[k])]

\* the elements of a list, as a set
Range(s) == {s[k] : k \in 1..Len(s)}

\* sequences without repetition over S, of length at most n
RECURSIVE DistinctSeqs(_, _)
DistinctSeqs(S, n) ==
    IF n = 0 THEN {<<>>}
    ELSE LET shorter == DistinctSeqs(S, n - 1)
         IN shorter \cup
            UNION {{Append(s, x) : x \in S \ Range(s)} : s \in shorter}

----------------------------------------------------------------------------
(* The temporal-logic backend (rtamt), an external library.  The model     *)
(* gives it the quantitative semantics of core/robustness.py.              *)

\* what the backend compiles each formula text to; a text outside the
\* table is one its parser rejects
FormulaTable ==
    [f \in {"always(latency < 2)", "always(pe_utilization > 1)"} |->
        IF f = "always(latency < 2)"
        THEN [temporal_op |-> "always", signal |-> "latency",
              comparison |-> "<", threshold |-> 2]
        ELSE [temporal_op |-> "always", signal |-> "pe_utilization",
              comparison |-> ">", threshold |-> 1]]

robustness_distance(value, threshold, comparison) ==
    IF comparison \in {"<", "<="} THEN threshold - value ELSE value - threshold

\* "if time_interval: filtered = [(t, v) for t, v in signal if start <= t <= end]
\* else: filtered = signal"; no interval (None) is the empty tuple
FilterSignal(signal, time_interval) ==
    IF time_interval # <<>>
    THEN SelectSeq(signal, LAMBDA s : time_interval[1] <= s[1] /\ s[1] <= time_interval[2])
    ELSE signal

temporal_robustness_always_IgnoresWindow(signal, threshold, comparison, time_interval) ==
    IF signal = <<>> THEN 0
    ELSE MinSeq([k \in 1..Len(signal) |->
                    robustness_distance(signal[k][2], threshold, comparison)])

temporal_robustness_always(signal, threshold, comparison, time_interval) ==
    LET filtered == FilterSignal(signal, time_interval)
    IN IF filtered = <<>> THEN 0
       ELSE MinSeq([k \in 1..Len(filtered) |->
                       robustness_distance(filtered[k][2], threshold, comparison)])

temporal_robustness_eventually(signal, threshold, comparison, time_interval) ==
    LET filtered == FilterSignal(signal, time_interval)
    IN IF filtered = <<>> THEN 0
       ELSE MaxSeq([k \in 1..Len(filtered) |->
                       robustness_distance(filtered[k][2], threshold, comparison)])

\* spec.parse() of the backend: declared variables, then the formula text
RtamtParse(formula, declared) ==
    /\ formula \in DOMAIN FormulaTable
    /\ FormulaTable[formula].signal \in Range(declared)

\* spec.evaluate(*eval_args) of the backend
RtamtEvaluate(formula, signals) ==
    LET f == FormulaTable[formula]
    IN IF f.temporal_op = "always"
       THEN temporal_robustness_always(signals[f.signal], f.threshold,
                                       f.comparison, <<>>)
       ELSE temporal_robustness_eventually(signals[f.signal], f.threshold,
                                           f.comparison, <<>>)

----------------------------------------------------------------------------
(* STLSpecification and the validation of STLDebugger *)

\* STLSpecification.__init__: the fields of a new object (_parsed is the
\* variable parsed)
STLSpecification(formula, signal_names, name) ==
    [formula |-> formula,
     signal_names |-> signal_names,
     name |-> IF name = "" THEN formula ELSE name]

\* the Specification objects of the model, by identity
SpecIds == {"sp_lat", "sp_util", "sp_bad", "sp_two", "sp_empty", "sp_dup"}

SpecObject(id) ==
    CASE id = "sp_lat" ->
            STLSpecification("always(latency < 2)", <<"latency">>, "max_latency")
      [] id = "sp_util" ->
            STLSpecification("always(pe_utilization > 1)", <<"pe_utilization">>,
                             "min_pe_utilization")
      [] id = "sp_two" ->
            STLSpecification("always(latency < 2)", <<"latency", "pe_utilization">>,
                             "latency_of_pe")
      [] id = "sp_dup" ->
            STLSpecification("always(pe_utilization > 1)", <<"pe_utilization">>,
                             "max_latency")
      [] id = "sp_empty" ->
            STLSpecification("", <<>>, "")
      [] OTHER ->
            STLSpecification("always(energy <", <<"energy">>, "")

\* an exception: its Python type, the statement that raised it, and what
\* its message holds (the specification's name, signal names, the available
\* names, the message of the exception it wraps)
Exception(exc, site, spec, signals, available, inner) ==
    [exc |-> exc, site |-> site, spec |-> spec, signals |-> signals,
     available |-> available, inner |-> inner]

\* STLDebugger.validate_specification: the 'valid' entry of the report
validate_specification(spec) ==
    spec.formula # "" /\ spec.signal_names # <<>>

\* whether validate_signals reports a present signal as malformed
Malformed(signal) ==
    \/ Len(signal) = 0
    \/ Len(signal[1]) # 2

\* STLDebugger.validate_signals
validate_signals(signals, required_signals) ==
    LET missing == SelectSeq(required_signals, LAMBDA n : n \notin DOMAIN signals)
        malformed == SelectSeq(required_signals,
                        LAMBDA n : n \in DOMAIN signals /\ Malformed(signals[n]))
    IN [valid |-> Len(missing) + Len(malformed) = 0,
        missing_signals |-> missing,
        malformed_signals |-> malformed,
        available_signals |-> DOMAIN signals,
        required_signals |-> required_signals]

\* STLSpecification.parse: TRUE iff the backend is importable and accepts
\* the formula; it never raises
parse(spec, installed) ==
    installed /\ RtamtParse(spec.formula, spec.signal_names)

\* evaluate calling parse() on every call, whatever the _parsed flag
evaluate_ParsesEveryTime(spec, signals, is_parsed, installed) ==
    LET signal_validation == validate_signals(signals, spec.signal_names)
        Raise(e) == [raised |-> TRUE, error |-> e, robustness |-> 0,
                     parsed |-> is_parsed, parse_called |-> FALSE,
                     backend_called |-> FALSE]
    IN IF ~validate_specification(spec)
       THEN Raise(Exception("ValueError", "Invalid specification", spec.name,
                            <<>>, {}, None))
       ELSE IF ~signal_validation.valid
       THEN Raise(Exception("ValueError", "Required signal not provided",
                            spec.name, signal_validation.missing_signals,
                            DOMAIN signals, None))
       ELSE IF ~parse(spec, installed)
       THEN [Raise(Exception("RuntimeError", "parsing failed", "", <<>>, {}, None))
                EXCEPT !.parse_called = TRUE]
       ELSE [raised |-> FALSE, error |-> None,
             robustness |-> RtamtEvaluate(spec.formula, signals),
             parsed |-> TRUE, parse_called |-> TRUE,
             backend_called |-> TRUE]

\* STLSpecification.evaluate(signals) on an object whose _parsed flag is
\* is_parsed: what it returns or raises, the flag afterwards, and whether
\* parse() and the backend evaluator were called
evaluate(spec, signals, is_parsed, installed) ==
    LET signal_validation == validate_signals(signals, spec.signal_names)
        Raise(e) == [raised |-> TRUE, error |-> e, robustness |-> 0,
                     parsed |-> is_parsed, parse_called |-> FALSE,
                     backend_called |-> FALSE]
    IN IF ~validate_specification(spec)
       THEN Raise(Exception("ValueError", "Invalid specification", spec.name,
                            <<>>, {}, None))
       ELSE IF ~signal_validation.valid
       THEN Raise(Exception("ValueError", "Required signal not provided",
                            spec.name, signal_validation.missing_signals,
                            DOMAIN signals, None))
       ELSE IF ~is_parsed /\ ~parse(spec, installed)
       THEN [Raise(Exception("RuntimeError", "parsing failed", "", <<>>, {}, None))
                EXCEPT !.parse_called = TRUE]
       ELSE [raised |-> FALSE, error |-> None,
             robustness |-> RtamtEvaluate(spec.formula, signals),
             parsed |-> TRUE, parse_called |-> ~is_parsed,
             backend_called |-> TRUE]

----------------------------------------------------------------------------
(* SignalExtractor *)

\* _scalar_to_signal: [(float(t), value) for t in range(int(duration))]
_scalar_to_signal(value, duration) ==
    [t \in 1..duration |-> <<t - 1, value>>]

\* the scalar metrics _extract_global_signals reads
GlobalMetrics ==
    {"latency", "energy", "edp_latency", "edp_cycles", "area",
     "avg_throughput", "min_utilization", "max_utilization"}

_extract_global_signals(stats_dict) ==
    LET duration == Get(stats_dict, "global_cycles", 1)
    IN [m \in GlobalMetrics |-> _scalar_to_signal(Get(stats_dict, m, 0), duration)]

\* the signals of one compute block
ComputeBlockSignals(comp_stat, duration) ==
    LET name == Get(comp_stat, "name", "unknown")
        idle_cycles == Get(comp_stat, "idle_cycles", 0)
        computational_cycles == Get(comp_stat, "computational_cycles", 0)
        total_cycles == idle_cycles + computational_cycles
        \* the ratio idle/total, in hundredths
        idle_ratio == IF total_cycles > 0
                      THEN (100 * idle_cycles) \div total_cycles ELSE 0
        value(k) ==
            CASE k = name \o "_utilization" -> Get(comp_stat, "utilization", 0)
              [] k = name \o "_throughput" -> Get(comp_stat, "throughput", 0)
              [] OTHER -> idle_ratio
    IN [k \in {name \o "_utilization", name \o "_throughput", name \o "_idle_ratio"}
            |-> _scalar_to_signal(value(k), duration)]

RECURSIVE ComputeSignals(_, _)
ComputeSignals(compute_stats, duration) ==
    IF compute_stats = <<>> THEN <<>>
    ELSE Update(ComputeSignals(SubSeq(compute_stats, 1, Len(compute_stats) - 1),
                               duration),
                ComputeBlockSignals(compute_stats[Len(compute_stats)], duration))

_extract_compute_signals(stats_dict) ==
    ComputeSignals(Get(stats_dict, "compute_stats", <<>>),
                   Get(stats_dict, "global_cycles", 1))

\* the signals of one on-chip memory
MemoryBlockSignals(mem_stat, duration) ==
    LET name == Get(mem_stat, "name", "unknown")
        keys == {name \o "_hit_rate", name \o "_miss_rate"} \cup
                (IF "bandwidth_per_port" \in DOMAIN mem_stat
                 THEN {name \o "_bandwidth"} ELSE {})
        value(k) ==
            CASE k = name \o "_hit_rate" -> Get(mem_stat, "hit_rate", 0)
              [] k = name \o "_miss_rate" -> Get(mem_stat, "miss_rate", 0)
              [] OTHER -> Get(mem_stat, "bandwidth_per_port", 0)
    IN [k \in keys |-> _scalar_to_signal(value(k), duration)]

RECURSIVE MemorySignals(_, _)
MemorySignals(memory_stats, duration) ==
    IF memory_stats = <<>> THEN <<>>
    ELSE Update(MemorySignals(SubSeq(memory_stats, 1, Len(memory_stats) - 1),
                              duration),
                MemoryBlockSignals(memory_stats[Len(memory_stats)], duration))

_extract_memory_signals(stats_dict) ==
    LET duration == Get(stats_dict, "global_cycles", 1)
        on_chip == MemorySignals(Get(stats_dict, "memory_stats", <<>>), duration)
        dram_stats == Get(stats_dict, "dram_stats", <<>>)
        dram_name == Get(dram_stats, "name", "dram")
    IN IF DOMAIN dram_stats = {} THEN on_chip
       ELSE Update(on_chip,
                [k \in {dram_name \o "_hit_rate", dram_name \o "_accesses"} |->
                    _scalar_to_signal(
                        IF k = dram_name \o "_hit_rate"
                        THEN Get(dram_stats, "hit_rate", 0)
                        ELSE Get(dram_stats, "accesses", 0), duration)])

\* SignalExtractor.extract_signals, for a stats_dict that is a dict
extract_signals(stats_dict) ==
    Update(Update(_extract_global_signals(stats_dict),
                  _extract_compute_signals(stats_dict)),
           _extract_memory_signals(stats_dict))

\* whether extract_signals raises: stats_dict.get fails on a value that is
\* no dict
ExtractRaises(stats_dict) == stats_dict = None

\* SignalExtractor.get_available_signals
get_available_signals(stats_dict) == DOMAIN extract_signals(stats_dict)

----------------------------------------------------------------------------
(* The Monitor: BaseSTLMonitor and OfflineSTLMonitor *)

\* EvaluationResult with the satisfied flag taken as robustness > 0
EvaluationResult_StrictlyPositive(id, robustness) ==
    LET spec == SpecObject(id)
    IN [specification |-> spec.formula,
        name |-> spec.name,
        robustness |-> robustness,
        satisfied |-> robustness > 0,
        signals_used |-> spec.signal_names,
        spec_object |-> id]

\* the EvaluationResult dict built by OfflineSTLMonitor.evaluate
EvaluationResult(id, robustness) ==
    LET spec == SpecObject(id)
    IN [specification |-> spec.formula,
        name |-> spec.name,
        robustness |-> robustness,
        satisfied |-> robustness >= 0,
        signals_used |-> spec.signal_names,
        spec_object |-> id]

\* the loop of OfflineSTLMonitor.evaluate from specification k on; acc is
\* the local list results, flags the _parsed flags, calls the signal names
\* of the map each Specification.evaluate call so far was given
RECURSIVE EvaluateLoop(_, _, _, _, _, _, _)
EvaluateLoop(specs, k, all_signals, flags, installed, acc, calls) ==
    IF k > Len(specs)
    THEN [raised |-> FALSE, error |-> None, results |-> acc,
          parsed |-> flags, calls |-> calls]
    ELSE
      LET id == specs[k]
          spec == SpecObject(id)
          absent == SelectSeq(spec.signal_names,
                              LAMBDA n : n \notin DOMAIN all_signals)
          required_signals ==
              [n \in Range(spec.signal_names) |-> all_signals[n]]
          r == evaluate(spec, required_signals, flags[id], installed)
          after == [flags EXCEPT ![id] = r.parsed]
          called == Append(calls, [spec_object |-> id,
                                   signals |-> DOMAIN required_signals,
                                   parse_called |-> r.parse_called,
                                   backend_called |-> r.backend_called])
      IN IF absent # <<>>
         THEN [raised |-> TRUE,
               error |-> Exception("ValueError", "Required signal not available",
                                   spec.name, <<absent[1]>>, {}, None),
               results |-> acc, parsed |-> flags, calls |-> calls]
         ELSE IF r.raised
         THEN [raised |-> TRUE,
               error |-> Exception("RuntimeError", "Failed to evaluate specification",
                                   spec.name, <<>>, {}, r.error),
               results |-> acc, parsed |-> after, calls |-> called]
         ELSE EvaluateLoop(specs, k + 1, all_signals, after, installed,
                           Append(acc, EvaluationResult(id, r.robustness)), called)

\* OfflineSTLMonitor.evaluate(stats_dict) up to the assignment of
\* self.results: what the call computes or raises
MonitorEvaluate(specs, stats_dict, flags, installed) ==
    IF ExtractRaises(stats_dict)
    THEN [raised |-> TRUE,
          error |-> Exception("RuntimeError", "Failed to extract signals",
                              "", <<>>, {}, None),
          results |-> <<>>, parsed |-> flags, calls |-> <<>>]
    ELSE EvaluateLoop(specs, 1, extract_signals(stats_dict), flags, installed,
                      <<>>, <<>>)

\* the value of a/b as an exact fraction
Fraction(a, b) == [num |-> a, den |-> b]

Robustness(result) == result.robustness

\* BaseSTLMonitor.get_violations
get_violations(res) == SelectSeq(res, LAMBDA r : r.robustness < 0)

\* BaseSTLMonitor.get_satisfied
get_satisfied(res) == SelectSeq(res, LAMBDA r : r.robustness >= 0)

\* BaseSTLMonitor.all_satisfied
all_satisfied(res) == \A k \in 1..Len(res) : res[k].satisfied

\* BaseSTLMonitor.any_violated
any_violated(res) == \E k \in 1..Len(res) : ~res[k].satisfied

\* the derived queries of BaseSTLMonitor
Queries ==
    {"get_violations", "get_satisfied", "all_satisfied", "any_violated",
     "get_min_robustness", "get_max_robustness", "get_avg_robustness",
     "get_summary"}

\* the body of a derived query after its _evaluated check, on the stored
\* list res of a monitor over specs; min(), max() and the division raise on
\* an empty list
QueryBody(q, res, specs) ==
    LET rho == MapSeq(res, Robustness)
        Empty(exc) == [raised |-> TRUE,
                       error |-> Exception(exc, q, "", <<>>, {}, None),
                       value |-> None]
        Value(v) == [raised |-> FALSE, error |-> None, value |-> v]
    IN CASE q = "get_violations" -> Value(get_violations(res))
         [] q = "get_satisfied" -> Value(get_satisfied(res))
         [] q = "all_satisfied" -> Value(all_satisfied(res))
         [] q = "any_violated" -> Value(any_violated(res))
         [] q = "get_min_robustness" ->
                IF res = <<>> THEN Empty("ValueError") ELSE Value(MinSeq(rho))
         [] q = "get_max_robustness" ->
                IF res = <<>> THEN Empty("ValueError") ELSE Value(MaxSeq(rho))
         [] q = "get_avg_robustness" ->
                IF res = <<>> THEN Empty("ZeroDivisionError")
                ELSE Value(Fraction(SumSeq(rho), Len(rho)))
         [] OTHER ->
                IF res = <<>> THEN Empty("ValueError")
                ELSE Value([total_specifications |-> Len(specs),
                            satisfied |-> Len(get_satisfied(res)),
                            violated |-> Len(get_violations(res)),
                            min_robustness |-> MinSeq(rho),
                            max_robustness |-> MaxSeq(rho),
                            avg_robustness |-> Fraction(SumSeq(rho), Len(rho)),
                            all_satisfied |-> all_satisfied(res)])

\* a derived query on a monitor whose _evaluated flag is evaluated
Query(q, evaluated, res, specs) ==
    IF ~evaluated
    THEN [raised |-> TRUE,
          error |-> Exception("RuntimeError", "Call evaluate() before", "",
                              <<>>, {}, None),
          value |-> None]
    ELSE QueryBody(q, res, specs)

\* validate_specifications accepting a specification as soon as one of its
\* signals is available
validate_specifications_AnyAvailable(specs, stats_dict) ==
    LET available_signals == get_available_signals(stats_dict)
        names == {SpecObject(specs[k]).name : k \in 1..Len(specs)}
        last(n) == CHOOSE k \in 1..Len(specs) :
                      /\ SpecObject(specs[k]).name = n
                      /\ \A j \in (k + 1)..Len(specs) : SpecObject(specs[j]).name # n
    IN [n \in names |->
          LET required_signals == Range(SpecObject(specs[last(n)]).signal_names)
          IN [valid |-> required_signals \cap available_signals # {},
              required_signals |-> required_signals,
              missing_signals |-> required_signals \ available_signals]]

\* OfflineSTLMonitor.validate_specifications
validate_specifications(specs, stats_dict) ==
    LET available_signals == get_available_signals(stats_dict)
        names == {SpecObject(specs[k]).name : k \in 1..Len(specs)}
        \* a later specification of the same name replaces the entry
        last(n) == CHOOSE k \in 1..Len(specs) :
                      /\ SpecObject(specs[k]).name = n
                      /\ \A j \in (k + 1)..Len(specs) : SpecObject(specs[j]).name # n
    IN [n \in names |->
          LET required_signals == Range(SpecObject(specs[last(n)]).signal_names)
          IN [valid |-> required_signals \subseteq available_signals,
              required_signals |-> required_signals,
              missing_signals |-> required_signals \ available_signals]]

----------------------------------------------------------------------------
(* ConstraintBasedDSE and RobustnessRanker *)

\* the hardware configuration objects, by identity, and their name field;
\* two distinct objects may carry the same name
ConfigIds == {"c1", "c2", "c3"}

ConfigName(config) == IF config = "c3" THEN "B" ELSE "A"

\* the except branch of explore_design_space: the dict it appends
Sentinel(config, e) ==
    [config |-> config,
     config_name |-> ConfigName(config),
     error |-> e,
     min_robustness |-> NegInf,
     satisfies_all |-> FALSE]

\* the dict the try branch of explore_design_space builds
DSEResult(config, stats, stl_results, summary) ==
    LET robustness_values == MapSeq(stl_results, Robustness)
    IN [config |-> config,
        config_name |-> ConfigName(config),
        stats |-> stats,
        stl_results |-> stl_results,
        min_robustness |-> IF robustness_values # <<>>
                           THEN MinSeq(robustness_values) ELSE 0,
        avg_robustness |-> IF robustness_values # <<>>
                           THEN Fraction(SumSeq(robustness_values),
                                         Len(robustness_values))
                           ELSE Fraction(0, 1),
        satisfies_all |-> \A k \in 1..Len(stl_results) : stl_results[k].satisfied,
        num_violations |-> Cardinality({k \in 1..Len(stl_results) :
                                            ~stl_results[k].satisfied}),
        monitor_summary |-> summary]

\* BaseSTLMonitor.__init__: the assertion on its argument
MonitorInitRaises(specs) == specs = <<>>

\* one iteration of the loop of explore_design_space for config, where sim
\* is what the simulation collaborator does (raise, or yield a stats
\* record): the dict appended to results, whether it is cached, and the
\* _parsed flags afterwards
ExploreOne(config, sim, cons, flags, installed) ==
    LET m == MonitorEvaluate(cons, sim.stats, flags, installed)
        summary == Query("get_summary", TRUE, m.results, cons)
        Failed(e, after) == [result |-> Sentinel(config, e), cached |-> FALSE,
                             parsed |-> after]
    IN IF sim.raised
       THEN Failed(Exception("Exception", "run_simulation_analysis", "", <<>>,
                             {}, None), flags)
       ELSE IF MonitorInitRaises(cons)
       THEN Failed(Exception("AssertionError",
                             "At least one specification must be provided",
                             "", <<>>, {}, None), flags)
       ELSE IF m.raised THEN Failed(m.error, m.parsed)
       ELSE IF summary.raised THEN Failed(summary.error, m.parsed)
       ELSE [result |-> DSEResult(config, sim.stats, m.results, summary.value),
             cached |-> TRUE, parsed |-> m.parsed]

\* the cache after one iteration: self.results_cache[config.name] = result
CacheAfter(cache, one) ==
    IF one.cached
    THEN Update(cache, [n \in {one.result.config_name} |-> one.result])
    ELSE cache

\* a sort that puts a later element before the earlier ones of equal key
\* when reversed (an ascending sort followed by a reversal)
RECURSIVE SortByMinRobustness_Reversal(_, _)
SortByMinRobustness_Reversal(list, reverse) ==
    IF list = <<>> THEN <<>>
    ELSE LET front == SortByMinRobustness_Reversal(
                          SubSeq(list, 1, Len(list) - 1), reverse)
             x == list[Len(list)]
             Before(y) == IF reverse
                          THEN y.min_robustness > x.min_robustness
                          ELSE y.min_robustness <= x.min_robustness
             n == Cardinality({k \in 1..Len(front) : Before(front[k])})
         IN SubSeq(front, 1, n) \o <<x>> \o SubSeq(front, n + 1, Len(front))

\* list.sort / sorted by key min_robustness: equal keys keep their order,
\* also under reverse=True
RECURSIVE SortByMinRobustness(_, _)
SortByMinRobustness(list, reverse) ==
    IF list = <<>> THEN <<>>
    ELSE LET front == SortByMinRobustness(SubSeq(list, 1, Len(list) - 1), reverse)
             x == list[Len(list)]
             Before(y) == IF reverse
                          THEN y.min_robustness >= x.min_robustness
                          ELSE y.min_robustness <= x.min_robustness
             n == Cardinality({k \in 1..Len(front) : Before(front[k])})
         IN SubSeq(front, 1, n) \o <<x>> \o SubSeq(front, n + 1, Len(front))

\* RobustnessRanker.rank_by_min_robustness
rank_by_min_robustness(list, ascending) == SortByMinRobustness(list, ~ascending)

\* a/b < c/d and a/b = c/d, for positive denominators
FractionLess(x, y) == x.num * y.den < y.num * x.den

FractionEqual(x, y) == x.num * y.den = y.num * x.den

\* sorted(list, key=..., reverse=True), where keys[i] is the key of list[i]:
\* descending, and elements of equal key keep their order
SortedDescending(list, keys) ==
    LET n == Len(list)
        place(i) == Cardinality({j \in 1..n :
                        \/ FractionLess(keys[i], keys[j])
                        \/ FractionEqual(keys[i], keys[j]) /\ j < i}) + 1
    IN [r \in 1..n |-> list[CHOOSE i \in 1..n : place(i) = r]]

\* compute_weighted_robustness of rank_by_weighted_robustness
compute_weighted_robustness(result, spec_weights) ==
    LET stl_results == Get(result, "stl_results", <<>>)
        weight(k) == Get(spec_weights, stl_results[k].name, 1)
        weighted_sum == SumSeq([k \in 1..Len(stl_results) |->
                                   stl_results[k].robustness * weight(k)])
        total_weight == SumSeq([k \in 1..Len(stl_results) |-> weight(k)])
    IN IF total_weight > 0 THEN Fraction(weighted_sum, total_weight)
       ELSE Fraction(0, 1)

\* a ranking in which a specification without a weight counts for nothing
rank_by_weighted_robustness_DefaultZero(results_, spec_weights) ==
    LET key(result) ==
            LET stl_results == Get(result, "stl_results", <<>>)
                weight(k) == Get(spec_weights, stl_results[k].name, 0)
                weighted_sum == SumSeq([k \in 1..Len(stl_results) |->
                                           stl_results[k].robustness * weight(k)])
                total_weight == SumSeq([k \in 1..Len(stl_results) |-> weight(k)])
            IN IF total_weight > 0 THEN Fraction(weighted_sum, total_weight)
               ELSE Fraction(0, 1)
    IN SortedDescending(results_, [k \in 1..Len(results_) |-> key(results_[k])])

\* RobustnessRanker.rank_by_weighted_robustness
rank_by_weighted_robustness(results_, spec_weights) ==
    SortedDescending(results_,
        [k \in 1..Len(results_) |->
            compute_weighted_robustness(results_[k], spec_weights)])

\* a filter that keeps the results without violations, sentinels included
filter_satisfying_NoViolations(results_) ==
    SelectSeq(results_, LAMBDA r : Get(r, "num_violations", 0) = 0)

\* ConstraintBasedDSE.filter_satisfying
filter_satisfying(results_) ==
    SelectSeq(results_, LAMBDA r : Get(r, "satisfies_all", FALSE))

\* RobustnessRanker.filter_satisfying_all
filter_satisfying_all(results_) ==
    SelectSeq(results_, LAMBDA r : Get(r, "satisfies_all", FALSE))

\* float('nan'): what inf - inf and inf / inf evaluate to
NaN == [nan |-> TRUE]

\* a result without stats has no performance term
NoTerm == [absent |-> TRUE]

\* x > y on floats: false as soon as one side is nan
FloatGreater(x, y) ==
    /\ x # NaN
    /\ y # NaN
    /\ FractionLess(y, x)

\* max(list, key=...), where keys[i] is the key of list[i]: the first
\* element no later element's key is greater than
RECURSIVE MaxIndex(_, _)
MaxIndex(keys, n) ==
    IF n = 1 THEN 1
    ELSE LET best == MaxIndex(keys, n - 1)
         IN IF FloatGreater(keys[n], keys[best]) THEN n ELSE best

\* the steps in which robustness_weight runs from 0.0 to 1.0
WeightSteps == 2

\* RobustnessRanker.select_best_tradeoff, with robustness_weight =
\* weight_step / WeightSteps: the value returned and, per result, the
\* normalised terms and the score of the inner function score
select_best_tradeoff(results_, weight_step, performance_metric, minimize_performance) ==
    LET n == Len(results_)
        robustness_values == [k \in 1..n |-> Get(results_[k], "min_robustness", 0)]
        with_stats == SelectSeq(results_, LAMBDA r : "stats" \in DOMAIN r)
        perf_values == [k \in 1..Len(with_stats) |->
                           Get(with_stats[k].stats, performance_metric, 0)]
        rob_min == MinSeq(robustness_values)
        rob_max == MaxSeq(robustness_values)
        perf_min == MinSeq(perf_values)
        perf_max == MaxSeq(perf_values)
        \* rob_max - rob_min is inf when rob_min is -inf
        rob_range == IF rob_max # rob_min THEN rob_max - rob_min ELSE 1
        perf_range == IF perf_max # perf_min THEN perf_max - perf_min ELSE 1
        \* (rob - rob_min) / rob_range: with rob_min = -inf the difference is
        \* nan for rob = -inf and inf otherwise, and inf / inf is nan
        rob_norm(result) ==
            LET rob == Get(result, "min_robustness", rob_min)
            IN IF rob_min = NegInf THEN NaN
               ELSE Fraction(rob - rob_min, rob_range)
        perf_norm(result) ==
            IF "stats" \notin DOMAIN result THEN NoTerm
            ELSE LET perf == Get(result.stats, performance_metric, perf_min)
                 IN IF minimize_performance
                    THEN Fraction(perf_range - (perf - perf_min), perf_range)
                    ELSE Fraction(perf - perf_min, perf_range)
        score(result) ==
            LET rn == rob_norm(result)
                pn == perf_norm(result)
            IN IF rn = NaN THEN NaN
               ELSE IF pn = NoTerm
               THEN Fraction(weight_step * rn.num, WeightSteps * rn.den)
               ELSE Fraction(weight_step * rn.num * pn.den
                                + (WeightSteps - weight_step) * pn.num * rn.den,
                             WeightSteps * rn.den * pn.den)
    IN IF results_ = <<>>
       THEN [value |-> None, rob_norm |-> <<>>, perf_norm |-> <<>>, score |-> <<>>]
       ELSE IF perf_values = <<>>
       THEN [value |-> results_[MaxIndex(
                          [k \in 1..n |->
                              Fraction(Get(results_[k], "min_robustness", NegInf), 1)],
                          n)],
             rob_norm |-> <<>>, perf_norm |-> <<>>, score |-> <<>>]
       ELSE LET scores == [k \in 1..n |-> score(results_[k])]
            IN [value |-> results_[MaxIndex(scores, n)],
                rob_norm |-> [k \in 1..n |-> rob_norm(results_[k])],
                perf_norm |-> [k \in 1..n |-> perf_norm(results_[k])],
                score |-> scores]

\* the keys _export_txt and _export_csv read with result[...], in the
\* order they read them
ExportedKeys == <<"config_name", "min_robustness", "avg_robustness",
                  "satisfies_all", "num_violations">>

\* the first of these keys a result lacks, as a list of at most one
MissingKey(result) ==
    LET absent == SelectSeq(ExportedKeys, LAMBDA k : k \notin DOMAIN result)
    IN IF absent = <<>> THEN <<>> ELSE <<absent[1]>>

\* the lines _export_txt writes for the result at index i - 1 before it
\* finishes the entry or stops at a missing key: "Rank i: name", one line
\* per value, the three stats lines, an empty line
TxtLines(i, result) ==
    LET Line(k) ==
            IF k = "config_name"
            THEN [line |-> "Rank", rank |-> i, config_name |-> result[k]]
            ELSE [line |-> k, value |-> result[k]]
        missing == MissingKey(result)
        written == IF missing = <<>> THEN ExportedKeys
                   ELSE SubSeq(ExportedKeys, 1,
                               (CHOOSE n \in 1..Len(ExportedKeys) :
                                   ExportedKeys[n] = missing[1]) - 1)
        stats_lines ==
            IF "stats" \in DOMAIN result
            THEN [n \in 1..3 |->
                     LET k == <<"latency", "energy", "area">>[n]
                     IN [line |-> k,
                         value |-> IF k \in DOMAIN result.stats
                                   THEN <<result.stats[k]>> ELSE <<"N/A">>]]
            ELSE <<>>
    IN [n \in 1..Len(written) |-> Line(written[n])]
       \o (IF missing = <<>> THEN stats_lines \o <<[line |-> ""]>> ELSE <<>>)

\* the row _export_csv writes for the result at index i - 1; a result that
\* lacks a key raises before writerow
CsvRows(i, result) ==
    IF MissingKey(result) # <<>> THEN <<>>
    ELSE <<[line |-> "Rank", rank |-> i, config_name |-> result.config_name,
            min_robustness |-> result.min_robustness,
            avg_robustness |-> result.avg_robustness,
            satisfies_all |-> result.satisfies_all,
            num_violations |-> result.num_violations,
            stats |-> IF "stats" \in DOMAIN result
                      THEN [k \in {"latency", "energy", "area"} |->
                               IF k \in DOMAIN result.stats
                               THEN <<result.stats[k]>> ELSE <<"">>]
                      ELSE [k \in {} |-> <<>>]]>>

\* the loop "for i, result in enumerate(results)" of both writers from
\* index i - 1 on, after the lines in file: it stops at the first result
\* that lacks a key
RECURSIVE ExportLoop(_, _, _, _)
ExportLoop(results_, i, file, format) ==
    IF i > Len(results_) THEN [raised |-> FALSE, file |-> file]
    ELSE LET lines == IF format = "txt" THEN TxtLines(i, results_[i])
                      ELSE CsvRows(i, results_[i])
             missing == MissingKey(results_[i])
         IN IF missing # <<>>
            THEN [raised |-> TRUE, exc |-> "KeyError", key |-> missing[1],
                  file |-> file \o lines]
            ELSE ExportLoop(results_, i + 1, file \o lines, format)

\* ConstraintBasedDSE.export_results: whether it raised, and the file
export_results(results_, format) ==
    IF format \notin {"txt", "csv"}
    THEN [raised |-> TRUE, exc |-> "ValueError", key |-> format, file |-> <<>>]
    ELSE ExportLoop(results_, 1, <<[line |-> "header"]>>, format)

\* the metrics compare_configs reads from a cached result, and from its stats
ResultMetrics == {"min_robustness", "avg_robustness", "satisfies_all", "num_violations"}

StatsMetrics == {"latency", "energy", "area", "avg_throughput"}

\* compare_configs reporting the last unknown name instead of the first
compare_configs_LastUnknown(cache, config_names) ==
    LET unknown == SelectSeq(config_names, LAMBDA n : n \notin DOMAIN cache)
    IN IF unknown # <<>>
       THEN [raised |-> TRUE,
             error |-> Exception("ValueError", "not in cache", "",
                                 <<unknown[Len(unknown)]>>, {}, None),
             value |-> None]
       ELSE [raised |-> FALSE, error |-> None,
             value |->
               [configs |-> config_names,
                metrics |->
                  [metric \in {"min_robustness", "avg_robustness", "satisfies_all",
                               "num_violations", "latency", "energy", "area",
                               "avg_throughput"} |->
                     [n \in Range(config_names) |->
                        IF metric \in {"min_robustness", "avg_robustness",
                                       "satisfies_all", "num_violations"}
                        THEN Get(cache[n], metric, None)
                        ELSE Get(cache[n].stats, metric, None)]]]]

\* ConstraintBasedDSE.compare_configs: the first name that is not cached
\* raises; otherwise one map per metric
compare_configs(cache, config_names) ==
    LET unknown == SelectSeq(config_names, LAMBDA n : n \notin DOMAIN cache)
    IN IF unknown # <<>>
       THEN [raised |-> TRUE,
             error |-> Exception("ValueError", "not in cache", "",
                                 <<unknown[1]>>, {}, None),
             value |-> None]
       ELSE [raised |-> FALSE, error |-> None,
             value |->
               [configs |-> config_names,
                metrics |->
                  [metric \in ResultMetrics \cup StatsMetrics |->
                     [n \in Range(config_names) |->
                        IF metric \in ResultMetrics
                        THEN Get(cache[n], metric, None)
                        ELSE Get(cache[n].stats, metric, None)]]]]

----------------------------------------------------------------------------
(* The inputs of the model *)

\* stats records of the documented schema: a fast and a slow design with
\* one compute block, one without compute blocks, one of zero cycles
StatsFast ==
    [global_cycles |-> 2, latency |-> 2, energy |-> 1,
     compute_stats |-> <<[name |-> "pe", utilization |-> 3]>>]

StatsSlow ==
    [global_cycles |-> 1, latency |-> 4, energy |-> 2,
     compute_stats |-> <<[name |-> "pe", utilization |-> 1]>>]

StatsBare == [global_cycles |-> 2, latency |-> 1, energy |-> 3]

StatsIdle ==
    [global_cycles |-> 0, latency |-> 1,
     compute_stats |-> <<[name |-> "pe", utilization |-> 3]>>]

\* what the simulation collaborator does for a configuration
Simulations ==
    {[raised |-> TRUE, stats |-> None]} \cup
    {[raised |-> FALSE, stats |-> s] : s \in {StatsFast, StatsSlow, StatsBare}}

\* what a caller hands to Monitor.evaluate and validate_specifications
MonitorStats == {StatsFast, StatsSlow, StatsBare, StatsIdle, None}

\* the constraint lists a DSE engine is built with
ConstraintChoices == {<<>>, <<"sp_lat">>, <<"sp_lat", "sp_util">>, <<"sp_util", "sp_bad">>}

\* the specification lists the stand-alone Monitor is built with
MonitorChoices ==
    {<<"sp_lat">>, <<"sp_lat", "sp_util">>, <<"sp_util", "sp_bad">>, <<"sp_two", "sp_lat">>,
     <<"sp_lat", "sp_dup">>}

\* the signals a caller hands to Specification.evaluate directly: a
\* non-empty list of (time, value) pairs, an empty list, a list of triples
DirectSignals == {<<<<0, 1>>, <<1, 1>>>>, <<>>, <<<<0, 1, 1>>>>}

\* the signal maps of such a call
DirectSignalMaps ==
    UNION {[names -> DirectSignals] : names \in SUBSET {"latency", "pe_utilization"}}

\* the names a caller asks compare_configs about
RequestedNames == {"A", "B", "Z"}

NoStats == [nostats |-> TRUE]

NoCall == [op |-> "none"]

\* no task is running
NoTasks == [idle |-> TRUE]

----------------------------------------------------------------------------
(* The DSE engine as a state machine *)

Init ==
    /\ rtamt_installed \in BOOLEAN
    /\ parsed = [id \in SpecIds |-> FALSE]
    /\ constraints \in ConstraintChoices
    /\ results_cache = <<>>
    /\ pc = "idle"
    /\ hw_configs = <<>>
    /\ idx = 1
    /\ results = <<>>
    /\ sims = <<>>
    /\ specifications = <<"sp_lat">>
    /\ mon_results = None
    /\ mon_evaluated = FALSE
    /\ last_ok = NoStats
    /\ tasks = NoTasks
    /\ ret = NoCall

MonitorUnchanged ==
    UNCHANGED <<specifications, mon_results, mon_evaluated, last_ok, tasks>>

\* explore_design_space(hw_configs) is entered: results = []; an empty
\* list skips the loop, is sorted and returned
ExploreCall(configs) ==
    /\ pc # "loop"
    /\ hw_configs' = configs
    /\ idx' = 1
    /\ results' = <<>>
    /\ sims' = <<>>
    /\ pc' = IF configs = <<>> THEN "returned" ELSE "loop"
    /\ ret' = NoCall
    /\ UNCHANGED <<rtamt_installed, parsed, constraints, results_cache>>
    /\ MonitorUnchanged

\* an iteration whose except branch ends the run instead of recording a
\* sentinel
ExploreIteration_Abort(sim) ==
    /\ pc = "loop"
    /\ LET one == ExploreOne(hw_configs[idx], sim, constraints, parsed,
                             rtamt_installed)
           appended == IF one.cached THEN Append(results, one.result) ELSE results
       IN /\ results_cache' = CacheAfter(results_cache, one)
          /\ sims' = Append(sims, sim)
          /\ parsed' = one.parsed
          /\ IF idx = Len(hw_configs) \/ ~one.cached
             THEN /\ results' = SortByMinRobustness(appended, TRUE)
                  /\ pc' = "returned"
                  /\ idx' = idx
             ELSE /\ results' = appended
                  /\ pc' = "loop"
                  /\ idx' = idx + 1
    /\ UNCHANGED <<rtamt_installed, constraints, hw_configs, ret>>
    /\ MonitorUnchanged

\* one iteration of the loop; after the last one the list is sorted in
\* place and returned
ExploreIteration(sim) ==
    /\ pc = "loop"
    /\ LET one == ExploreOne(hw_configs[idx], sim, constraints, parsed,
                             rtamt_installed)
           appended == Append(results, one.result)
       IN /\ results_cache' = CacheAfter(results_cache, one)
          /\ sims' = Append(sims, sim)
          /\ parsed' = one.parsed
          /\ IF idx = Len(hw_configs)
             THEN /\ results' = SortByMinRobustness(appended, TRUE)
                  /\ pc' = "returned"
                  /\ idx' = idx
             ELSE /\ results' = appended
                  /\ pc' = "loop"
                  /\ idx' = idx + 1
    /\ UNCHANGED <<rtamt_installed, constraints, hw_configs, ret>>
    /\ MonitorUnchanged

\* compare_configs(config_names), between exploration runs
CompareConfigs(config_names) ==
    /\ pc # "loop"
    /\ ret' = [op |-> "compare_configs", args |-> config_names,
               out |-> compare_configs(results_cache, config_names)]
    /\ UNCHANGED <<rtamt_installed, parsed, constraints, results_cache, pc,
                   hw_configs, idx, results, sims>>
    /\ MonitorUnchanged

\* RobustnessRanker.rank_by_min_robustness(list) with default arguments, on
\* the results of the last run in any order
RankByMinRobustness(list) ==
    /\ pc = "returned"
    /\ ret' = [op |-> "rank_by_min_robustness", args |-> list,
               out |-> rank_by_min_robustness(list, FALSE)]
    /\ UNCHANGED <<rtamt_installed, parsed, constraints, results_cache, pc,
                   hw_configs, idx, results, sims>>
    /\ MonitorUnchanged

\* explore_design_space has returned its list and the caller now hands it
\* to a function that reads nothing but its arguments
AfterRun == pc = "returned" /\ ret = NoCall

\* the weights a caller gives to specification names
MaxWeight == 2

SpecWeights ==
    UNION {[names -> 0..MaxWeight] :
              names \in SUBSET {"max_latency", "min_pe_utilization"}}

\* RobustnessRanker.rank_by_weighted_robustness(list, spec_weights), on the
\* results of the last run in any order
RankByWeightedRobustness(list, spec_weights) ==
    /\ AfterRun
    /\ ret' = [op |-> "rank_by_weighted_robustness",
               args |-> [results |-> list, spec_weights |-> spec_weights],
               out |-> rank_by_weighted_robustness(list, spec_weights)]
    /\ UNCHANGED <<rtamt_installed, parsed, constraints, results_cache, pc,
                   hw_configs, idx, results, sims>>
    /\ MonitorUnchanged

\* filter_satisfying(list) and RobustnessRanker.filter_satisfying_all(list),
\* on the results of the last run in any order; the caller's list object
\* is not written
FilterSatisfying(list) ==
    /\ AfterRun
    /\ ret' = [op |-> "filter_satisfying", args |-> list,
               out |-> [filter_satisfying |-> filter_satisfying(list),
                        filter_satisfying_all |-> filter_satisfying_all(list),
                        results |-> list]]
    /\ UNCHANGED <<rtamt_installed, parsed, constraints, results_cache, pc,
                   hw_configs, idx, results, sims>>
    /\ MonitorUnchanged

\* RobustnessRanker.select_best_tradeoff on the list explore_design_space
\* returned
SelectBestTradeoff(weight_step, performance_metric, minimize_performance) ==
    /\ AfterRun
    /\ ret' = [op |-> "select_best_tradeoff",
               args |-> [results |-> results, weight_step |-> weight_step,
                         performance_metric |-> performance_metric,
                         minimize_performance |-> minimize_performance],
               out |-> select_best_tradeoff(results, weight_step,
                           performance_metric, minimize_performance)]
    /\ UNCHANGED <<rtamt_installed, parsed, constraints, results_cache, pc,
                   hw_configs, idx, results, sims>>
    /\ MonitorUnchanged

\* export_results(results, filename, format) on the list
\* explore_design_space returned
ExportResults(format) ==
    /\ AfterRun
    /\ ret' = [op |-> "export_results",
               args |-> [results |-> results, format |-> format],
               out |-> export_results(results, format)]
    /\ UNCHANGED <<rtamt_installed, parsed, constraints, results_cache, pc,
                   hw_configs, idx, results, sims>>
    /\ MonitorUnchanged

\* the orders in which a caller may hold a list
Orderings(list) ==
    {[k \in 1..Len(list) |-> list[p[k]]] :
        p \in {q \in [1..Len(list) -> 1..Len(list)] :
                  \A a, b \in 1..Len(list) : a # b => q[a] # q[b]}}

Next ==
    \/ \E configs \in DistinctSeqs(ConfigIds, MaxConfigs) : ExploreCall(configs)
    \/ \E sim \in Simulations : ExploreIteration(sim)
    \/ \E names \in DistinctSeqs(RequestedNames, MaxNames) : CompareConfigs(names)
    \/ \E list \in Orderings(results) : RankByMinRobustness(list)
    \/ \E list \in Orderings(results), spec_weights \in SpecWeights :
          RankByWeightedRobustness(list, spec_weights)
    \/ \E list \in Orderings(results) : FilterSatisfying(list)
    \/ \E weight_step \in 0..WeightSteps, performance_metric \in {"latency", "energy"},
          minimize_performance \in BOOLEAN :
          SelectBestTradeoff(weight_step, performance_metric, minimize_performance)
    \/ \E format \in {"txt", "csv", "json"} : ExportResults(format)

Spec == Init /\ [][Next]_vars

----------------------------------------------------------------------------
(* The stand-alone Monitor and direct Specification calls as a state       *)
(* machine                                                                 *)

MonitorInit ==
    /\ rtamt_installed \in BOOLEAN
    /\ parsed = [id \in SpecIds |-> FALSE]
    /\ constraints = <<>>
    /\ results_cache = <<>>
    /\ pc = "idle"
    /\ hw_configs = <<>>
    /\ idx = 1
    /\ results = <<>>
    /\ sims = <<>>
    /\ specifications \in MonitorChoices
    /\ mon_results = None
    /\ mon_evaluated = FALSE
    /\ last_ok = NoStats
    /\ tasks = NoTasks
    /\ ret = NoCall

EngineUnchanged ==
    UNCHANGED <<rtamt_installed, constraints, results_cache, pc, hw_configs,
                idx, results, sims, specifications, tasks>>

\* evaluate assigning self.results and self._evaluated before the loop, so
\* that a failing call leaves its partial list behind
Evaluate_AssignsBeforeLoop(stats_dict) ==
    LET m == MonitorEvaluate(specifications, stats_dict, parsed, rtamt_installed)
    IN /\ parsed' = m.parsed
       /\ mon_results' = IF ExtractRaises(stats_dict) THEN mon_results ELSE m.results
       /\ mon_evaluated' = IF ExtractRaises(stats_dict) THEN mon_evaluated ELSE TRUE
       /\ last_ok' = IF m.raised THEN last_ok ELSE stats_dict
       /\ ret' = [op |-> "evaluate", args |-> stats_dict,
                  out |-> [raised |-> m.raised, error |-> m.error,
                           value |-> m.results],
                  calls |-> m.calls]
       /\ EngineUnchanged

\* evaluate extending the stored list instead of replacing it
Evaluate_Accumulates(stats_dict) ==
    LET m == MonitorEvaluate(specifications, stats_dict, parsed, rtamt_installed)
    IN /\ parsed' = m.parsed
       /\ mon_results' = IF m.raised THEN mon_results
                         ELSE IF mon_evaluated THEN mon_results \o m.results
                         ELSE m.results
       /\ mon_evaluated' = IF m.raised THEN mon_evaluated ELSE TRUE
       /\ last_ok' = IF m.raised THEN last_ok ELSE stats_dict
       /\ ret' = [op |-> "evaluate", args |-> stats_dict,
                  out |-> [raised |-> m.raised, error |-> m.error,
                           value |-> m.results],
                  calls |-> m.calls]
       /\ EngineUnchanged

\* evaluate clearing the stored results when it fails
Evaluate_ClearsOnFailure(stats_dict) ==
    LET m == MonitorEvaluate(specifications, stats_dict, parsed, rtamt_installed)
    IN /\ parsed' = m.parsed
       /\ mon_results' = IF m.raised
                         THEN (IF mon_evaluated THEN <<>> ELSE mon_results)
                         ELSE m.results
       /\ mon_evaluated' = IF m.raised THEN FALSE ELSE TRUE
       /\ last_ok' = IF m.raised THEN NoStats ELSE stats_dict
       /\ ret' = [op |-> "evaluate", args |-> stats_dict,
                  out |-> [raised |-> m.raised, error |-> m.error,
                           value |-> m.results],
                  calls |-> m.calls]
       /\ EngineUnchanged

\* OfflineSTLMonitor.evaluate(stats_dict): self.results and self._evaluated
\* are assigned after the loop, when nothing raised
Evaluate(stats_dict) ==
    LET m == MonitorEvaluate(specifications, stats_dict, parsed, rtamt_installed)
    IN /\ parsed' = m.parsed
       /\ mon_results' = IF m.raised THEN mon_results ELSE m.results
       /\ mon_evaluated' = IF m.raised THEN mon_evaluated ELSE TRUE
       /\ last_ok' = IF m.raised THEN last_ok ELSE stats_dict
       /\ ret' = [op |-> "evaluate", args |-> stats_dict,
                  out |-> [raised |-> m.raised, error |-> m.error,
                           value |-> m.results],
                  calls |-> m.calls]
       /\ EngineUnchanged

\* BaseSTLMonitor.reset
Reset ==
    /\ mon_results' = None
    /\ mon_evaluated' = FALSE
    /\ last_ok' = NoStats
    /\ ret' = [op |-> "reset"]
    /\ UNCHANGED parsed
    /\ EngineUnchanged

\* OfflineSTLMonitor.validate_specifications(stats_dict)
ValidateSpecifications(stats_dict) ==
    /\ ret' = [op |-> "validate_specifications", args |-> stats_dict,
               out |-> IF ExtractRaises(stats_dict)
                       THEN [raised |-> TRUE,
                             error |-> Exception("AttributeError", "extract_signals",
                                                 "", <<>>, {}, None),
                             value |-> None]
                       ELSE [raised |-> FALSE, error |-> None,
                             value |-> validate_specifications(specifications,
                                                               stats_dict)]]
    /\ UNCHANGED <<parsed, mon_results, mon_evaluated, last_ok>>
    /\ EngineUnchanged

\* a derived query of BaseSTLMonitor
DerivedQuery(q) ==
    /\ ret' = [op |-> q,
               out |-> Query(q, mon_evaluated, mon_results, specifications)]
    /\ UNCHANGED <<parsed, mon_results, mon_evaluated, last_ok>>
    /\ EngineUnchanged

\* STLSpecification.evaluate(signals), called directly on object id
SpecificationEvaluate(id, signals) ==
    LET r == evaluate(SpecObject(id), signals, parsed[id], rtamt_installed)
    IN /\ parsed' = [parsed EXCEPT ![id] = r.parsed]
       /\ ret' = [op |-> "Specification.evaluate", spec_object |-> id,
                  args |-> signals, was_parsed |-> parsed[id], out |-> r]
       /\ UNCHANGED <<mon_results, mon_evaluated, last_ok>>
       /\ EngineUnchanged

\* STLSpecification.parse(), called directly on object id: both except
\* clauses return False and leave _parsed as it was
Parse(id) ==
    LET success == parse(SpecObject(id), rtamt_installed)
    IN /\ parsed' = [parsed EXCEPT ![id] = IF success THEN TRUE ELSE @]
       /\ ret' = [op |-> "Specification.parse", spec_object |-> id,
                  was_parsed |-> parsed[id],
                  out |-> [raised |-> FALSE, error |-> None, value |-> success]]
       /\ UNCHANGED <<mon_results, mon_evaluated, last_ok>>
       /\ EngineUnchanged

\* the arguments STLSpecification(...) is called with
ConstructorArguments ==
    [formula : {"", "always(latency < 2)"},
     signal_names : {<<>>, <<"latency">>},
     name : {"", "max_latency"}]

\* STLSpecification(formula, signal_names, name=name): __init__ assigns the
\* fields and has no raise statement
Construct(args) ==
    /\ ret' = [op |-> "STLSpecification", args |-> args,
               out |-> [raised |-> FALSE, error |-> None,
                        value |-> STLSpecification(args.formula,
                                                   args.signal_names, args.name),
                        _parsed |-> FALSE]]
    /\ UNCHANGED <<parsed, mon_results, mon_evaluated, last_ok>>
    /\ EngineUnchanged

MonitorNext ==
    \/ \E stats_dict \in MonitorStats : Evaluate(stats_dict)
    \/ Reset
    \/ \E stats_dict \in MonitorStats : ValidateSpecifications(stats_dict)
    \/ \E q \in Queries : DerivedQuery(q)
    \/ \E id \in SpecIds, signals \in DirectSignalMaps :
          SpecificationEvaluate(id, signals)
    \/ \E id \in SpecIds : Parse(id)
    \/ \E args \in ConstructorArguments : Construct(args)

MonitorSpec == MonitorInit /\ [][MonitorNext]_vars

----------------------------------------------------------------------------
(* Properties of the DSE engine, checked under Spec *)

\* a failure sentinel: the error text, min_robustness = -inf, satisfies_all
\* false, and none of the fields of an evaluated result
IsSentinel(r) ==
    /\ DOMAIN r = {"config", "config_name", "error", "min_robustness", "satisfies_all"}
    /\ r.error # None
    /\ r.min_robustness = NegInf
    /\ r.satisfies_all = FALSE

\* a regular result of an evaluated configuration
IsEvaluated(r) == "stats" \in DOMAIN r /\ "error" \notin DOMAIN r

\* whether building a Monitor over the constraints and evaluating it against
\* stats raises
MonitorRaises(stats) ==
    \/ MonitorInitRaises(constraints)
    \/ MonitorEvaluate(constraints, stats, parsed, rtamt_installed).raised

\* configuration i of the run failed: its simulation or its Monitor raised
Failed(i) == sims[i].raised \/ MonitorRaises(sims[i].stats)

\* the positions of the results of configuration object c in a list
PositionsOf(list, c) == {k \in 1..Len(list) : list[k].config = c}

\* the result of input configuration i in the returned list
ResultOf(i) == results[CHOOSE k \in 1..Len(results) : results[k].config = hw_configs[i]]

\* C1: whichever configurations make the simulation or the Monitor raise,
\* explore_design_space returns exactly one result per input configuration;
\* the result of a failing configuration is a sentinel (min_robustness =
\* -inf, satisfies_all = false, the error text) and every other
\* configuration, also one after a failing one, is evaluated on the stats of
\* its own simulation.
C1_OneResultPerConfiguration ==
    pc = "returned" =>
        /\ Len(results) = Len(hw_configs)
        /\ \A i \in 1..Len(hw_configs) :
              /\ Cardinality(PositionsOf(results, hw_configs[i])) = 1
              /\ IF Failed(i) THEN IsSentinel(ResultOf(i))
                 ELSE IsEvaluated(ResultOf(i)) /\ ResultOf(i).stats = sims[i].stats

\* C1 witness: a returned run of two configurations whose first one failed
\* and whose second one was evaluated
C1_Witness ==
    /\ pc = "returned"
    /\ Len(hw_configs) = 2
    /\ Failed(1)
    /\ ~Failed(2)
    /\ IsSentinel(ResultOf(1))
    /\ IsEvaluated(ResultOf(2))

NonIncreasing(list) ==
    \A k \in 1..(Len(list) - 1) : list[k].min_robustness >= list[k + 1].min_robustness

\* out holds the elements of inp, each as often as inp does
IsPermutation(out, inp) ==
    /\ Len(out) = Len(inp)
    /\ \A x \in Range(inp) \cup Range(out) :
          Cardinality({k \in 1..Len(out) : out[k] = x})
              = Cardinality({k \in 1..Len(inp) : inp[k] = x})

\* the place of element x in a list of distinct elements
Place(list, x) == CHOOSE k \in 1..Len(list) : list[k] = x

\* elements of equal min_robustness stand in out in the order of inp
TiesKeepOrder(out, inp) ==
    \A k, l \in 1..Len(out) :
        (k < l /\ out[k].min_robustness = out[l].min_robustness)
            => Place(inp, out[k]) < Place(inp, out[l])

Ranked(out, inp) ==
    IsPermutation(out, inp) /\ NonIncreasing(out) /\ TiesKeepOrder(out, inp)

\* the results of the run in the order of hw_configs
EvaluatedInOrder == [i \in 1..Len(hw_configs) |-> ResultOf(i)]

\* C3: the list explore_design_space returns, and the list
\* rank_by_min_robustness returns by default, is a permutation of its
\* input that is non-increasing in min_robustness and keeps the input order
\* of results of equal min_robustness.
C3_StableDescendingOrder ==
    /\ pc = "returned" => Ranked(results, EvaluatedInOrder)
    /\ ret.op = "rank_by_min_robustness" => Ranked(ret.out, ret.args)

\* C3 witness: a returned run of two results of equal min_robustness, and a
\* ranking of the same two handed over in the other order
C3_Witness ==
    /\ pc = "returned"
    /\ Len(results) = 2
    /\ results[1].min_robustness = results[2].min_robustness
    /\ IsEvaluated(results[1])
    /\ ret.op = "rank_by_min_robustness"
    /\ ret.args = <<results[2], results[1]>>
    /\ ret.out = ret.args

\* C4: an evaluated configuration's result has min_robustness = the least
\* per-spec robustness, avg_robustness = their mean, satisfies_all = the
\* conjunction of the satisfied flags, num_violations = the number of
\* unsatisfied specs; hence satisfies_all iff num_violations = 0 iff
\* min_robustness >= 0.
C4_Aggregates ==
    \A k \in 1..Len(results) :
        IsEvaluated(results[k]) =>
            LET r == results[k]
                n == Len(r.stl_results)
                rho == [j \in 1..n |-> r.stl_results[j].robustness]
            IN /\ r.min_robustness \in Range(rho)
               /\ \A v \in Range(rho) : r.min_robustness <= v
               /\ r.avg_robustness.den > 0
               /\ r.avg_robustness.num * n = SumSeq(rho) * r.avg_robustness.den
               /\ r.satisfies_all = (\A j \in 1..n : r.stl_results[j].satisfied)
               /\ r.num_violations
                    = Cardinality({j \in 1..n : ~r.stl_results[j].satisfied})
               /\ r.satisfies_all <=> r.num_violations = 0
               /\ r.num_violations = 0 <=> r.min_robustness >= 0

\* C4 witness: an evaluated result over two specs, one violated and one met
\* with robustness 0, and an evaluated result whose min_robustness is 0
C4_Witness ==
    /\ Len(results) = 2
    /\ IsEvaluated(results[1]) /\ IsEvaluated(results[2])
    /\ results[1].min_robustness = 0
    /\ results[1].satisfies_all
    /\ Len(results[2].stl_results) = 2
    /\ results[2].num_violations = 1
    /\ results[2].min_robustness < 0

\* C5: after explore_design_space returns, the cache maps the name of
\* every input configuration of the run, failed ones included, to the result
\* produced for it in that run.
C5_CacheHoldsEveryResultOfTheRun ==
    pc = "returned" =>
        \A i \in 1..Len(hw_configs) :
            /\ ConfigName(hw_configs[i]) \in DOMAIN results_cache
            /\ results_cache[ConfigName(hw_configs[i])] = ResultOf(i)

\* the names whose cache entry the run has written so far
WrittenThisRun ==
    {results[k].config_name : k \in {j \in 1..Len(results) : IsEvaluated(results[j])}}

\* C6: within one run, once a result is cached under a name no later
\* configuration of the run replaces it.
C6_CacheWrittenOncePerName ==
    [][pc = "loop" =>
          \A n \in WrittenThisRun : results_cache'[n] = results_cache[n]]_vars

\* C7: with an empty constraint list, every configuration whose simulation
\* succeeds gets a regular result with min_robustness = 0.
C7_EmptyConstraintsGiveZero ==
    (constraints = <<>> /\ pc = "returned") =>
        \A i \in 1..Len(hw_configs) :
            ~sims[i].raised =>
                IsEvaluated(ResultOf(i)) /\ ResultOf(i).min_robustness = 0

\* the requested names that are not cached, in request order
UnknownNames(config_names, cache) ==
    SelectSeq(config_names, LAMBDA n : n \notin DOMAIN cache)

\* what compare_configs returns on success: for each metric of the fixed
\* set, one value per requested name, read from the cached result
ComparisonOf(value, config_names, cache) ==
    /\ DOMAIN value.metrics =
          {"min_robustness", "avg_robustness", "satisfies_all", "num_violations",
           "latency", "energy", "area", "avg_throughput"}
    /\ \A metric \in DOMAIN value.metrics :
          /\ DOMAIN value.metrics[metric] = Range(config_names)
          /\ \A n \in Range(config_names) :
                value.metrics[metric][n] =
                    IF metric \in DOMAIN cache[n] THEN cache[n][metric]
                    ELSE IF metric \in DOMAIN cache[n].stats THEN cache[n].stats[metric]
                    ELSE None

\* C8 as stated: compare_configs succeeds iff every requested name is
\* cached, and its error lists every unknown requested name.
C8_ErrorListsEveryUnknownName ==
    ret.op = "compare_configs" =>
        LET unknown == UnknownNames(ret.args, results_cache)
        IN /\ ret.out.raised <=> unknown # <<>>
           /\ ret.out.raised => Range(ret.out.error.signals) = Range(unknown)
           /\ ~ret.out.raised => ComparisonOf(ret.out.value, ret.args, results_cache)

\* C8 as amended: compare_configs succeeds iff every requested name is
\* cached; otherwise it raises a ValueError naming only the first unknown
\* requested name; either way the cache is unchanged; on success it returns,
\* for each metric of the fixed set, one value per requested name.
C8_ErrorNamesFirstUnknownName ==
    [][ret'.op = "compare_configs" =>
          LET unknown == UnknownNames(ret'.args, results_cache)
          IN /\ results_cache' = results_cache
             /\ ret'.out.raised <=> unknown # <<>>
             /\ ret'.out.raised =>
                   /\ ret'.out.error.exc = "ValueError"
                   /\ ret'.out.error.signals = <<unknown[1]>>
             /\ ~ret'.out.raised =>
                   ComparisonOf(ret'.out.value, ret'.args, results_cache)]_vars

\* C8 witness: a comparison that failed although one of its two requested
\* names is cached, and whose other name is the only one reported
C8_Witness ==
    /\ ret.op = "compare_configs"
    /\ ret.out.raised
    /\ Len(ret.args) = 2
    /\ ret.args[2] \in DOMAIN results_cache
    /\ ret.out.error.signals = <<ret.args[1]>>

----------------------------------------------------------------------------
(* Properties of the Monitor and of Specification.evaluate, checked under  *)
(* MonitorSpec                                                             *)

\* the state error of a derived query
IsStateError(out) ==
    /\ out.raised
    /\ out.error.exc = "RuntimeError"
    /\ out.error.site = "Call evaluate() before"

\* the result list an evaluation of the monitor's specifications against
\* stats_dict yields
ResultsFor(stats_dict) ==
    MonitorEvaluate(specifications, stats_dict, parsed, rtamt_installed).results

\* C2: in every sequence of Monitor operations a derived query raises the
\* state error iff no evaluate has completed successfully since construction
\* or the last reset; otherwise it answers from the most recent successful
\* evaluation.
C2_QueriesNeedSuccessfulEvaluate ==
    ret.op \in Queries =>
        /\ IsStateError(ret.out) <=> last_ok = NoStats
        /\ last_ok # NoStats =>
              ret.out = QueryBody(ret.op, ResultsFor(last_ok), specifications)

\* C2 witness: a query answered from an earlier successful evaluation
\* although a later evaluate failed, with two results to answer from
C2_Witness ==
    /\ ret.op = "get_summary"
    /\ ~ret.out.raised
    /\ ret.out.value.violated = 1
    /\ ret.out.value.satisfied = 1
    /\ last_ok = StatsSlow
    /\ parsed["sp_two"]

\* C9: a successful Monitor.evaluate returns and stores exactly one
\* EvaluationResult per Specification, in specification order, carrying the
\* specification's formula, name and declared signals, its robustness and
\* satisfied = (robustness >= 0); each Specification is evaluated with
\* exactly its declared signals; after any number of evaluate calls the
\* stored list has one entry per Specification, all from the latest
\* successful call.
C9_OneResultPerSpecification ==
    /\ (ret.op = "evaluate" /\ ~ret.out.raised) =>
          /\ mon_results = ret.out.value
          /\ last_ok = ret.args
          /\ Len(ret.out.value) = Len(specifications)
          /\ Len(ret.calls) = Len(specifications)
          /\ \A k \in 1..Len(specifications) :
                LET e == ret.out.value[k]
                    spec == SpecObject(specifications[k])
                IN /\ e.specification = spec.formula
                   /\ e.name = spec.name
                   /\ e.signals_used = spec.signal_names
                   /\ e.spec_object = specifications[k]
                   /\ e.robustness =
                         RtamtEvaluate(spec.formula, extract_signals(ret.args))
                   /\ e.satisfied = (e.robustness >= 0)
                   /\ ret.calls[k].spec_object = specifications[k]
                   /\ ret.calls[k].signals = Range(spec.signal_names)
    /\ mon_evaluated =>
          /\ Len(mon_results) = Len(specifications)
          /\ mon_results = ResultsFor(last_ok)

\* C9 witness: the second successful evaluate of a monitor over two
\* specifications, one of which declares two signals
C9_Witness ==
    /\ ret.op = "evaluate"
    /\ ~ret.out.raised
    /\ ret.args = StatsSlow
    /\ specifications = <<"sp_two", "sp_lat">>
    /\ ret.calls[1].signals = {"latency", "pe_utilization"}
    /\ ~ret.calls[1].parse_called
    /\ ~ret.out.value[1].satisfied

\* C10: Specification.evaluate raises the missing-signal error exactly when
\* a declared signal name is absent from the input map; the error names the
\* specification, exactly the absent names and the available names; neither
\* parse nor the backend evaluator is called and the parsed flag is
\* unchanged.
C10_MissingSignalIffAbsent ==
    ret.op = "Specification.evaluate" =>
        LET spec == SpecObject(ret.spec_object)
            absent == SelectSeq(spec.signal_names,
                                LAMBDA n : n \notin DOMAIN ret.args)
            missing_error == /\ ret.out.raised
                             /\ ret.out.error.site = "Required signal not provided"
        IN /\ missing_error <=> absent # <<>>
           /\ missing_error =>
                 /\ ret.out.error.spec = spec.name
                 /\ ret.out.error.signals = absent
                 /\ ret.out.error.available = DOMAIN ret.args
                 /\ ~ret.out.parse_called
                 /\ ~ret.out.backend_called
                 /\ parsed[ret.spec_object] = ret.was_parsed

\* whether the parser of the backend can be reached and accepts the
\* formula of Specification id
Parseable(id) == parse(SpecObject(id), rtamt_installed)

\* C11: Specification.evaluate calls parse only while the parsed flag is
\* unset; when that parse fails evaluate raises without calling the backend
\* evaluator and the flag stays unset; once the flag is set no evaluate,
\* direct or through a Monitor, parses again, and the flag is never unset;
\* parse() never raises and returns false on every failure.
C11_ParseOnlyWhileUnparsed ==
    [][/\ \A id \in SpecIds : parsed[id] => parsed'[id]
       /\ ret'.op = "Specification.evaluate" =>
             LET id == ret'.spec_object
                 spec == SpecObject(id)
                 out == ret'.out
                 checked == /\ validate_specification(spec)
                            /\ validate_signals(ret'.args, spec.signal_names).valid
             IN /\ out.parse_called <=> (checked /\ ~parsed[id])
                /\ (out.parse_called /\ ~Parseable(id)) =>
                      /\ out.raised
                      /\ out.error.site = "parsing failed"
                      /\ ~out.backend_called
                      /\ ~parsed'[id]
                /\ (out.parse_called /\ Parseable(id)) =>
                      ~out.raised /\ out.backend_called /\ parsed'[id]
                /\ ~out.parse_called => parsed'[id] = parsed[id]
       /\ ret'.op = "evaluate" =>
             \A k \in 1..Len(ret'.calls) :
                LET call == ret'.calls[k]
                IN /\ call.parse_called => ~parsed[call.spec_object]
                   /\ (call.parse_called /\ ~Parseable(call.spec_object)) =>
                         /\ ret'.out.raised
                         /\ k = Len(ret'.calls)
                         /\ ~call.backend_called
                         /\ ~parsed'[call.spec_object]
                   /\ call.backend_called => parsed'[call.spec_object]
       /\ ret'.op = "Specification.parse" =>
             /\ ~ret'.out.raised
             /\ ret'.out.value = Parseable(ret'.spec_object)
             /\ ~ret'.out.value => parsed'[ret'.spec_object] = parsed[ret'.spec_object]
      ]_vars

\* C11 witness: an evaluate on an already parsed Specification that reaches
\* the backend evaluator without parsing
C11_Witness ==
    /\ ret.op = "Specification.evaluate"
    /\ ret.was_parsed
    /\ ~ret.out.raised
    /\ ~ret.out.parse_called
    /\ ret.out.backend_called

\* C12: constructing a Specification with an empty formula or an empty
\* signal-name list is rejected with a validation error, so no
\* Specification object has an empty formula or an empty signal set.
C12_ConstructionRejectsEmpty ==
    ret.op = "STLSpecification" =>
        /\ (ret.args.formula = "" \/ ret.args.signal_names = <<>>) =>
              ret.out.raised
        /\ ~ret.out.raised =>
              ret.out.value.formula # "" /\ ret.out.value.signal_names # <<>>

\* whether the message of exception e, which embeds the message of the
\* exception it wraps, holds a specification name
NamesSpecification(e) ==
    \/ e.spec # ""
    \/ (e.inner # None /\ e.inner.spec # "")

\* whether the message of e reports signal names as missing or invalid
NamesSignals(e) ==
    \/ e.signals # <<>>
    \/ (e.inner # None /\ e.inner.signals # <<>>)

\* C13: whenever Monitor.evaluate fails, whatever the cause, the raised
\* error identifies the offending Specification by name and the missing or
\* invalid signal name(s).
C13_FailurePinpointsSpecificationAndSignals ==
    (ret.op = "evaluate" /\ ret.out.raised) =>
        NamesSpecification(ret.out.error) /\ NamesSignals(ret.out.error)

\* the entry validate_specifications owes Specification id for stats_dict:
\* valid iff every declared name is an extracted name, and the declared
\* names that were not extracted
EntryOwed(id, stats_dict) ==
    LET declared == Range(SpecObject(id).signal_names)
        extracted == DOMAIN extract_signals(stats_dict)
    IN [valid |-> declared \subseteq extracted,
        required_signals |-> declared,
        missing_signals |-> declared \ extracted]

\* the last position in the specification list that carries name n
LastNamed(n) ==
    CHOOSE k \in 1..Len(specifications) :
        /\ SpecObject(specifications[k]).name = n
        /\ \A j \in (k + 1)..Len(specifications) :
              SpecObject(specifications[j]).name # n

\* C14 as stated: validate_specifications returns one entry per
\* Specification, each with the validity and missing list of that
\* Specification.
C14_OneEntryPerSpecification ==
    (ret.op = "validate_specifications" /\ ~ret.out.raised) =>
        /\ Cardinality(DOMAIN ret.out.value) = Len(specifications)
        /\ \A k \in 1..Len(specifications) :
              ret.out.value[SpecObject(specifications[k]).name] =
                  EntryOwed(specifications[k], ret.args)

\* C14: validate_specifications(stats) on a statistics dictionary succeeds
\* in every Monitor state, changes neither the stored result list nor the
\* evaluated flag nor a parsed flag, and returns one entry per distinct
\* Specification name: the validity and missing list of the last
\* Specification carrying that name.
C14_OneEntryPerSpecificationName ==
    [][ret'.op = "validate_specifications" =>
          /\ mon_results' = mon_results
          /\ mon_evaluated' = mon_evaluated
          /\ last_ok' = last_ok
          /\ parsed' = parsed
          /\ ret'.out.raised <=> ret'.args = None
          /\ ~ret'.out.raised =>
                /\ DOMAIN ret'.out.value =
                      {SpecObject(specifications[k]).name :
                          k \in 1..Len(specifications)}
                /\ \A n \in DOMAIN ret'.out.value :
                      ret'.out.value[n] =
                          EntryOwed(specifications[LastNamed(n)], ret'.args)
      ]_vars

\* C14 witness: validation after a successful evaluate, on a monitor with
\* two Specifications of one name, the first of which has its signals and
\* the second of which has not
C14_Witness ==
    /\ ret.op = "validate_specifications"
    /\ ~ret.out.raised
    /\ mon_evaluated
    /\ specifications = <<"sp_lat", "sp_dup">>
    /\ EntryOwed("sp_lat", ret.args).valid
    /\ ~ret.out.value["max_latency"].valid

----------------------------------------------------------------------------
(* ParetoFrontier and the Pareto view of RobustnessRanker: pure functions  *)
(* over lists of metric dictionaries                                       *)

\* float('inf')
PosInf == 1000

\* the largest finite metric value, the longest objective list and the
\* longest list of points the functions are applied to
MaxValue == 2
MaxObjectives == 2
MaxPoints == 3

\* the metric names of the model: one usually minimised, one maximised
Metrics == {"latency", "avg_throughput"}

\* the metric dictionaries: every subset of the metrics with finite values
Points == UNION {[keys -> 1..MaxValue] : keys \in SUBSET Metrics}

\* all sequences over S of length at most n
ListsUpTo(S, n) == UNION {[1..k -> S] : k \in 0..n}

\* the default is_dominated substitutes for a missing objective
WorstCase(is_minimize) == IF is_minimize THEN PosInf ELSE NegInf

\* is_dominated with the defaults of a missing objective exchanged
is_dominated_BestCaseDefault(point1, point2, objectives, minimize) ==
    LET n == IF Len(objectives) <= Len(minimize)
             THEN Len(objectives) ELSE Len(minimize)
        val1(k) == Get(point1, objectives[k], WorstCase(~minimize[k]))
        val2(k) == Get(point2, objectives[k], WorstCase(~minimize[k]))
        strictly_better ==
            {k \in 1..n : IF minimize[k] THEN val2(k) < val1(k)
                                         ELSE val2(k) > val1(k)}
        better_or_equal ==
            strictly_better \cup {k \in 1..n : val2(k) = val1(k)}
    IN /\ Cardinality(better_or_equal) = Len(objectives)
       /\ Cardinality(strictly_better) > 0

\* is_dominated counting an equal objective as strictly better
is_dominated_EqualCounts(point1, point2, objectives, minimize) ==
    LET n == IF Len(objectives) <= Len(minimize)
             THEN Len(objectives) ELSE Len(minimize)
        val1(k) == Get(point1, objectives[k], WorstCase(minimize[k]))
        val2(k) == Get(point2, objectives[k], WorstCase(minimize[k]))
        strictly_better ==
            {k \in 1..n : IF minimize[k] THEN val2(k) <= val1(k)
                                         ELSE val2(k) >= val1(k)}
        better_or_equal ==
            strictly_better \cup {k \in 1..n : val2(k) = val1(k)}
    IN /\ Cardinality(better_or_equal) = Len(objectives)
       /\ Cardinality(strictly_better) > 0

\* ParetoFrontier.is_dominated(point1, point2, objectives, minimize): the
\* loop runs over zip(objectives, minimize), the two counters are the sizes
\* of the sets of positions that incremented them
is_dominated(point1, point2, objectives, minimize) ==
    LET n == IF Len(objectives) <= Len(minimize)
             THEN Len(objectives) ELSE Len(minimize)
        val1(k) == Get(point1, objectives[k], WorstCase(minimize[k]))
        val2(k) == Get(point2, objectives[k], WorstCase(minimize[k]))
        strictly_better ==
            {k \in 1..n : IF minimize[k] THEN val2(k) < val1(k)
                                         ELSE val2(k) > val1(k)}
        better_or_equal ==
            strictly_better \cup {k \in 1..n : val2(k) = val1(k)}
    IN /\ Cardinality(better_or_equal) = Len(objectives)
       /\ Cardinality(strictly_better) > 0

\* the configurations whose position is in keep, in list order
Keep(configurations, keep) ==
    LET RECURSIVE From(_)
        From(i) ==
            IF i > Len(configurations) THEN <<>>
            ELSE IF i \in keep THEN <<configurations[i]>> \o From(i + 1)
            ELSE From(i + 1)
    IN From(1)

\* compute_pareto_frontier keeping a point only if it dominates another
compute_pareto_frontier_Dominating(configurations, points, objectives, minimize) ==
    Keep(configurations,
         {i \in 1..Len(configurations) :
             \E j \in 1..Len(configurations) :
                 i # j /\ is_dominated(points[j], points[i], objectives, minimize)})

\* ParetoFrontier.compute_pareto_frontier after its assertion, where points
\* is the list extract_metrics yields for configurations (configurations
\* itself when extract_metrics is None)
compute_pareto_frontier(configurations, points, objectives, minimize) ==
    Keep(configurations,
         {i \in 1..Len(configurations) :
             ~\E j \in 1..Len(configurations) :
                 i # j /\ is_dominated(points[i], points[j], objectives, minimize)})

\* rank_by_pareto_layers returning after its first layer
rank_by_pareto_layers_FirstLayerOnly(configurations, objectives, minimize) ==
    IF configurations = <<>> THEN <<>>
    ELSE <<compute_pareto_frontier(configurations, configurations,
                                   objectives, minimize)>>

\* ParetoFrontier.rank_by_pareto_layers with extract_metrics None: the while
\* loop on remaining
RECURSIVE rank_by_pareto_layers(_, _, _)
rank_by_pareto_layers(configurations, objectives, minimize) ==
    IF configurations = <<>> THEN <<>>
    ELSE LET pareto_layer == compute_pareto_frontier(configurations, configurations,
                                                     objectives, minimize)
             remaining == SelectSeq(configurations,
                                    LAMBDA c : c \notin Range(pareto_layer))
         IN IF pareto_layer = <<>> THEN <<>>
            ELSE <<pareto_layer>> \o
                 rank_by_pareto_layers(remaining, objectives, minimize)

\* extract_metrics of get_pareto_robustness_performance: the robustness with
\* default -inf and, when the result has statistics, every performance
\* metric with default +inf
RobustnessPerformanceMetrics(result, performance_metrics) ==
    [m \in {"min_robustness"} \cup
           (IF "stats" \in DOMAIN result THEN Range(performance_metrics) ELSE {}) |->
        IF m = "min_robustness" THEN Get(result, "min_robustness", NegInf)
        ELSE Get(result["stats"], m, PosInf)]

\* RobustnessRanker.get_pareto_robustness_performance after the assertion of
\* compute_pareto_frontier
get_pareto_robustness_performance(results_, performance_metrics, minimize_metrics) ==
    compute_pareto_frontier(
        results_,
        [i \in 1..Len(results_) |->
            RobustnessPerformanceMetrics(results_[i], performance_metrics)],
        <<"min_robustness">> \o performance_metrics,
        <<FALSE>> \o minimize_metrics)

\* what a static method returns or raises
Returned(v) == [raised |-> FALSE, error |-> None, value |-> v]

Raised(exc, site) ==
    [raised |-> TRUE, error |-> Exception(exc, site, "", <<>>, {}, None),
     value |-> None]

\* sorted(range(n), key=...): the positions of keys in ascending order of
\* key, equal keys in position order
SortedIndices(keys) ==
    LET n == Len(keys)
        rank(i) == Cardinality({j \in 1..n :
                       keys[j] < keys[i] \/ (keys[j] = keys[i] /\ j < i)}) + 1
    IN [r \in 1..n |-> CHOOSE i \in 1..n : rank(i) = r]

\* the loop of hypervolume over sorted_points from position k on
RECURSIVE HypervolumeSweep(_, _, _, _, _, _, _)
HypervolumeSweep(sorted_points, k, obj1, obj2, ref2, prev_x, hv) ==
    IF k > Len(sorted_points) THEN hv
    ELSE LET x == sorted_points[k][obj1]
             y == sorted_points[k][obj2]
             width == x - prev_x
             height == ref2 - y
         IN HypervolumeSweep(sorted_points, k + 1, obj1, obj2, ref2, x,
                             hv + width * height)

\* ParetoFrontier.hypervolume with extract_metrics None; reference_point[obj]
\* and p[obj] raise KeyError on a missing key
hypervolume(pareto_front, objectives, reference_point) ==
    IF Len(objectives) # 2
    THEN Raised("NotImplementedError", "only implemented for 2 objectives")
    ELSE IF pareto_front = <<>> THEN Returned(0)
    ELSE
      LET obj1 == objectives[1]
          obj2 == objectives[2]
          sorted_indices ==
              SortedIndices([i \in 1..Len(pareto_front) |-> pareto_front[i][obj1]])
          sorted_points ==
              [r \in 1..Len(pareto_front) |-> pareto_front[sorted_indices[r]]]
      IN IF {obj1, obj2} \ DOMAIN reference_point # {}
         THEN Raised("KeyError", "reference_point")
         ELSE IF \E i \in 1..Len(pareto_front) :
                    {obj1, obj2} \ DOMAIN pareto_front[i] # {}
         THEN Raised("KeyError", "point")
         ELSE Returned(HypervolumeSweep(sorted_points, 1, obj1, obj2,
                                        reference_point[obj2],
                                        reference_point[obj1], 0))

\* a crowding distance: infinite, or the sum of the terms added to 0.0
Distance(inf, terms) == [inf |-> inf, terms |-> terms]

\* the loop of crowding_distance over the objectives from position k on
RECURSIVE CrowdingLoop(_, _, _, _)
CrowdingLoop(points, objectives, k, crowding) ==
    IF k > Len(objectives) THEN Returned(crowding)
    ELSE
      LET n == Len(points)
          obj == objectives[k]
          obj_values == [i \in 1..n |-> Get(points[i], obj, 0)]
          sorted_indices == SortedIndices(obj_values)
          boundary == {sorted_indices[1], sorted_indices[n]}
          obj_range == MaxSeq(obj_values) - MinSeq(obj_values)
          inner == 2..(n - 1)
          at(ix) == CHOOSE i \in inner : sorted_indices[i] = ix
          distance(i) ==
              Fraction(points[sorted_indices[i + 1]][obj]
                          - points[sorted_indices[i - 1]][obj],
                       obj_range)
          bounded == [ix \in 1..n |->
                        IF ix \in boundary THEN Distance(TRUE, <<>>)
                        ELSE crowding[ix]]
      IN IF obj_range = 0
         THEN CrowdingLoop(points, objectives, k + 1, bounded)
         ELSE IF \E i \in inner :
                    \/ obj \notin DOMAIN points[sorted_indices[i + 1]]
                    \/ obj \notin DOMAIN points[sorted_indices[i - 1]]
         THEN Raised("KeyError", "point")
         ELSE CrowdingLoop(points, objectives, k + 1,
                 [ix \in 1..n |->
                     IF bounded[ix].inf \/ ix \in boundary THEN bounded[ix]
                     ELSE Distance(FALSE, Append(bounded[ix].terms,
                                                 distance(at(ix))))])

\* crowding_distance treating only fewer than two points as the small case
crowding_distance_FewerThanTwo(configurations, objectives) ==
    LET n == Len(configurations)
    IN IF n < 2 THEN Returned([i \in 1..n |-> Distance(TRUE, <<>>)])
       ELSE CrowdingLoop(configurations, objectives, 1,
                         [i \in 1..n |-> Distance(FALSE, <<>>)])

\* ParetoFrontier.crowding_distance with extract_metrics None
crowding_distance(configurations, objectives) ==
    LET n == Len(configurations)
    IN IF n <= 2 THEN Returned([i \in 1..n |-> Distance(TRUE, <<>>)])
       ELSE CrowdingLoop(configurations, objectives, 1,
                         [i \in 1..n |-> Distance(FALSE, <<>>)])

----------------------------------------------------------------------------
(* The Pareto and ranking functions as a state machine: each step is one  *)
(* call, ret holds its arguments and what it returned or raised            *)

ObjectiveLists == ListsUpTo(Metrics, MaxObjectives)

DirectionLists == ListsUpTo(BOOLEAN, MaxObjectives)

PointLists == ListsUpTo(Points, MaxPoints)

\* the direction lists compute_pareto_frontier is given for objectives: one
\* direction per objective, or a list of another length
DirectionsFor(objectives) ==
    {minimize \in DirectionLists : Len(minimize) \in {Len(objectives), 0}}

\* a call about to be made: the function and its arguments
Call(fn, args) == [op |-> "call", fn |-> fn, args |-> args]

\* the calls of is_dominated: three points, to be compared pairwise
IsDominatedCall ==
    \E pts \in [1..3 -> Points], objectives \in ObjectiveLists,
       minimize \in DirectionLists :
       ret = Call("is_dominated",
                  [points |-> pts, objectives |-> objectives,
                   minimize |-> minimize])

\* the calls of compute_pareto_frontier and rank_by_pareto_layers
FrontierCall(fn) ==
    \E configurations \in PointLists, objectives \in ObjectiveLists :
       \E minimize \in DirectionsFor(objectives) :
          ret = Call(fn, [configurations |-> configurations,
                          objectives |-> objectives, minimize |-> minimize])

\* the longest list of DSE results the ranker is applied to
MaxResults == 2

\* a DSE result as the ranker reads it: min_robustness and stats, each
\* present or not (rob and st are lists of at most one element)
RankerResult(rob, st) ==
    [k \in (IF rob # <<>> THEN {"min_robustness"} ELSE {}) \cup
           (IF st # <<>> THEN {"stats"} ELSE {}) |->
        IF k = "min_robustness" THEN rob[1] ELSE st[1]]

RankerResults ==
    {RankerResult(rob, st) : rob \in ListsUpTo(1..MaxValue, 1),
                             st \in ListsUpTo(Points, 1)}

\* the calls of get_pareto_robustness_performance
RankerCall ==
    \E results_ \in ListsUpTo(RankerResults, MaxResults),
       performance_metrics \in ObjectiveLists :
       \E minimize_metrics \in DirectionsFor(performance_metrics) :
          ret = Call("get_pareto_robustness_performance",
                     [results |-> results_,
                      performance_metrics |-> performance_metrics,
                      minimize_metrics |-> minimize_metrics])

\* the longest front hypervolume is applied to
MaxFront == 2

\* the reference points: every subset of the metrics with values up to one
\* beyond the largest metric value
ReferencePoints == UNION {[keys -> 1..(MaxValue + 1)] : keys \in SUBSET Metrics}

\* the calls of hypervolume
HypervolumeCall ==
    \E pareto_front \in ListsUpTo(Points, MaxFront),
       objectives \in ObjectiveLists, reference_point \in ReferencePoints :
       ret = Call("hypervolume",
                  [pareto_front |-> pareto_front, objectives |-> objectives,
                   reference_point |-> reference_point])

\* the calls of crowding_distance
CrowdingCall ==
    \E configurations \in PointLists, objectives \in ObjectiveLists :
       ret = Call("crowding_distance",
                  [configurations |-> configurations, objectives |-> objectives])

ParetoCall ==
    \/ IsDominatedCall
    \/ FrontierCall("compute_pareto_frontier")
    \/ FrontierCall("rank_by_pareto_layers")
    \/ RankerCall
    \/ HypervolumeCall
    \/ CrowdingCall

\* the caller has chosen a function and its arguments
ParetoInit ==
    /\ rtamt_installed = TRUE
    /\ parsed = [id \in SpecIds |-> FALSE]
    /\ constraints = <<>>
    /\ results_cache = <<>>
    /\ pc = "idle"
    /\ hw_configs = <<>>
    /\ idx = 1
    /\ results = <<>>
    /\ sims = <<>>
    /\ specifications = <<>>
    /\ mon_results = None
    /\ mon_evaluated = FALSE
    /\ last_ok = NoStats
    /\ tasks = NoTasks
    /\ ParetoCall

\* a static method touches no object
StaticCall ==
    UNCHANGED <<rtamt_installed, parsed, constraints, results_cache, pc,
                hw_configs, idx, results, sims, specifications, mon_results,
                mon_evaluated, last_ok, tasks>>

Pending(fn) == ret.op = "call" /\ ret.fn = fn

\* ParetoFrontier.is_dominated on every ordered pair of three points
IsDominated ==
    /\ Pending("is_dominated")
    /\ ret' = [op |-> "is_dominated", args |-> ret.args,
               out |-> [i \in 1..3 |-> [j \in 1..3 |->
                          is_dominated(ret.args.points[i], ret.args.points[j],
                                       ret.args.objectives, ret.args.minimize)]]]
    /\ StaticCall

\* ParetoFrontier.compute_pareto_frontier(configurations, objectives,
\* minimize): the assertion on the lengths comes first
ComputeParetoFrontier ==
    /\ Pending("compute_pareto_frontier")
    /\ ret' = [op |-> "compute_pareto_frontier", args |-> ret.args,
               out |-> IF Len(ret.args.objectives) # Len(ret.args.minimize)
                       THEN Raised("AssertionError", "same length")
                       ELSE Returned(compute_pareto_frontier(
                                ret.args.configurations, ret.args.configurations,
                                ret.args.objectives, ret.args.minimize))]
    /\ StaticCall

\* ParetoFrontier.rank_by_pareto_layers(configurations, objectives,
\* minimize): the first call of compute_pareto_frontier asserts
RankByParetoLayers ==
    /\ Pending("rank_by_pareto_layers")
    /\ ret' = [op |-> "rank_by_pareto_layers", args |-> ret.args,
               out |-> IF /\ ret.args.configurations # <<>>
                          /\ Len(ret.args.objectives) # Len(ret.args.minimize)
                       THEN Raised("AssertionError", "same length")
                       ELSE Returned(rank_by_pareto_layers(
                                ret.args.configurations, ret.args.objectives,
                                ret.args.minimize))]
    /\ StaticCall

\* RobustnessRanker.get_pareto_robustness_performance(results,
\* performance_metrics, minimize_metrics)
GetParetoRobustnessPerformance ==
    /\ Pending("get_pareto_robustness_performance")
    /\ ret' = [op |-> "get_pareto_robustness_performance", args |-> ret.args,
               out |-> IF Len(ret.args.performance_metrics) #
                              Len(ret.args.minimize_metrics)
                       THEN Raised("AssertionError", "same length")
                       ELSE Returned(get_pareto_robustness_performance(
                                ret.args.results, ret.args.performance_metrics,
                                ret.args.minimize_metrics))]
    /\ StaticCall

\* ParetoFrontier.hypervolume(pareto_front, objectives, reference_point)
Hypervolume ==
    /\ Pending("hypervolume")
    /\ ret' = [op |-> "hypervolume", args |-> ret.args,
               out |-> hypervolume(ret.args.pareto_front, ret.args.objectives,
                                   ret.args.reference_point)]
    /\ StaticCall

\* ParetoFrontier.crowding_distance(configurations, objectives)
CrowdingDistance ==
    /\ Pending("crowding_distance")
    /\ ret' = [op |-> "crowding_distance", args |-> ret.args,
               out |-> crowding_distance(ret.args.configurations,
                                         ret.args.objectives)]
    /\ StaticCall

ParetoNext ==
    \/ IsDominated
    \/ ComputeParetoFrontier
    \/ RankByParetoLayers
    \/ GetParetoRobustnessPerformance
    \/ Hypervolume
    \/ CrowdingDistance

ParetoSpec == ParetoInit /\ [][ParetoNext]_vars

----------------------------------------------------------------------------
(* Properties of the Pareto and ranking functions, checked under ParetoSpec *)

\* q is at least as good as p on objective k, and strictly better, with the
\* worst value standing for a missing objective
Value(p, objectives, minimize, k) ==
    IF objectives[k] \in DOMAIN p THEN p[objectives[k]]
    ELSE IF minimize[k] THEN PosInf ELSE NegInf

AtLeastAsGood(q, p, objectives, minimize, k) ==
    IF minimize[k]
    THEN Value(q, objectives, minimize, k) <= Value(p, objectives, minimize, k)
    ELSE Value(q, objectives, minimize, k) >= Value(p, objectives, minimize, k)

Dominates(q, p, objectives, minimize) ==
    /\ \A k \in 1..Len(objectives) : AtLeastAsGood(q, p, objectives, minimize, k)
    /\ \E k \in 1..Len(objectives) : ~AtLeastAsGood(p, q, objectives, minimize, k)

\* C15: with one direction per objective, is_dominated(p, q) holds iff q is
\* better-or-equal than p on every listed objective and strictly better on
\* at least one; for all lists the relation is irreflexive, asymmetric and
\* transitive.
C15_DominanceIsStrictPartialOrder ==
    ret.op = "is_dominated" =>
        /\ Len(ret.args.objectives) = Len(ret.args.minimize) =>
              \A i, j \in 1..3 :
                 ret.out[i][j] <=> Dominates(ret.args.points[j], ret.args.points[i],
                                             ret.args.objectives, ret.args.minimize)
        /\ \A i \in 1..3 : ~ret.out[i][i]
        /\ \A i, j \in 1..3 : ~(ret.out[i][j] /\ ret.out[j][i])
        /\ \A i, j, k \in 1..3 :
              (ret.out[i][j] /\ ret.out[j][k]) => ret.out[i][k]

\* C15 witness: a chain of three points, each dominated by the next, on a
\* minimised and a maximised objective
C15_Witness ==
    /\ ret.op = "is_dominated"
    /\ ret.args.objectives = <<"latency", "avg_throughput">>
    /\ ret.args.minimize = <<TRUE, FALSE>>
    /\ ret.out[1][2]
    /\ ret.out[2][3]
    /\ ret.out[1][3]
    /\ ~ret.out[3][1]

\* how often x occurs in list
Count(list, x) == Cardinality({i \in 1..Len(list) : list[i] = x})

\* position i of list is dominated by no other position
NonDominatedAt(list, i, objectives, minimize) ==
    ~\E j \in 1..Len(list) :
        j # i /\ Dominates(list[j], list[i], objectives, minimize)

\* C16: compute_pareto_frontier returns, in input order, exactly the
\* candidates no candidate at another index dominates; the result is
\* non-empty for a non-empty input, every excluded candidate is dominated by
\* a member of the result, and the function maps its own output to itself.
C16_FrontierIsTheNonDominatedSet ==
    ret.op = "compute_pareto_frontier" =>
        LET configurations == ret.args.configurations
            objectives == ret.args.objectives
            minimize == ret.args.minimize
            out == ret.out.value
            survivors == {i \in 1..Len(configurations) :
                             NonDominatedAt(configurations, i, objectives, minimize)}
        IN /\ ret.out.raised <=> Len(objectives) # Len(minimize)
           /\ ~ret.out.raised =>
                 /\ out = Keep(configurations, survivors)
                 /\ Len(out) = Cardinality(survivors)
                 /\ configurations # <<>> => out # <<>>
                 /\ \A i \in 1..Len(configurations) :
                       i \notin survivors =>
                          \E m \in Range(out) :
                             Dominates(m, configurations[i], objectives, minimize)
                 /\ compute_pareto_frontier(out, out, objectives, minimize) = out

\* C16 witness: three candidates, the second dominated, the first and the
\* third equal and both kept
C16_Witness ==
    /\ ret.op = "compute_pareto_frontier"
    /\ ~ret.out.raised
    /\ Len(ret.args.configurations) = 3
    /\ Len(ret.args.objectives) = 2
    /\ ret.out.value = <<ret.args.configurations[1], ret.args.configurations[3]>>
    /\ ret.args.configurations[1] = ret.args.configurations[3]

\* C17: rank_by_pareto_layers terminates and its layers partition the
\* input: every configuration, duplicates counted as often as they occur,
\* is in exactly one layer; no layer is empty; each layer is non-dominated
\* within itself; every member of layer k+1 is dominated by a member of
\* layer k.
C17_LayersPartitionTheInput ==
    (ret.op = "rank_by_pareto_layers" /\ ~ret.out.raised) =>
        LET configurations == ret.args.configurations
            objectives == ret.args.objectives
            minimize == ret.args.minimize
            layers == ret.out.value
        IN /\ \A x \in Points :
                 /\ Count(configurations, x) =
                       SumSeq([k \in 1..Len(layers) |-> Count(layers[k], x)])
                 /\ Cardinality({k \in 1..Len(layers) : Count(layers[k], x) > 0}) =
                       IF Count(configurations, x) > 0 THEN 1 ELSE 0
           /\ \A k \in 1..Len(layers) :
                 /\ layers[k] # <<>>
                 /\ \A i \in 1..Len(layers[k]) :
                       NonDominatedAt(layers[k], i, objectives, minimize)
           /\ \A k \in 1..(Len(layers) - 1) :
                 \A m \in Range(layers[k + 1]) :
                    \E d \in Range(layers[k]) : Dominates(d, m, objectives, minimize)

\* C17 witness: a first layer holding two equal configurations and a second
\* layer holding the one they dominate
C17_Witness ==
    /\ ret.op = "rank_by_pareto_layers"
    /\ ~ret.out.raised
    /\ Len(ret.out.value) = 2
    /\ Len(ret.out.value[1]) = 2
    /\ ret.out.value[1][1] = ret.out.value[1][2]
    /\ Len(ret.out.value[2]) = 1

\* whether DSE result r has objective o of the composed view
HasObjective(r, o) ==
    IF o = "min_robustness" THEN "min_robustness" \in DOMAIN r
    ELSE "stats" \in DOMAIN r /\ o \in DOMAIN r["stats"]

\* C18: a record that lacks a listed objective never dominates a record
\* that has a finite value for that objective, in is_dominated and in the
\* composed robustness/performance Pareto view, for minimised and for
\* maximised metrics.
C18_IncompleteRecordNeverDominates ==
    /\ ret.op = "is_dominated" =>
          \A i, j \in 1..3 :
             (\E k \in 1..Len(ret.args.objectives) :
                 /\ ret.args.objectives[k] \in DOMAIN ret.args.points[i]
                 /\ ret.args.objectives[k] \notin DOMAIN ret.args.points[j])
             => ~ret.out[i][j]
    /\ (ret.op = "get_pareto_robustness_performance" /\ ~ret.out.raised) =>
          LET results_ == ret.args.results
              objectives == <<"min_robustness">> \o ret.args.performance_metrics
              Lacks(q, p) == \E k \in 1..Len(objectives) :
                                /\ HasObjective(p, objectives[k])
                                /\ ~HasObjective(q, objectives[k])
          IN \A i \in 1..Len(results_) :
                results_[i] \notin Range(ret.out.value) =>
                   \E j \in 1..Len(results_) :
                      j # i /\ ~Lacks(results_[j], results_[i])

\* the functions of the model that return through a result record
RecordFunctions ==
    {"compute_pareto_frontier", "rank_by_pareto_layers",
     "get_pareto_robustness_performance", "hypervolume", "crowding_distance"}

\* C19: no Pareto or ranking function raises because a record lacks a
\* metric key.
C19_MissingMetricNeverRaises ==
    ret.op \in RecordFunctions =>
        ~(/\ ret.out.raised
          /\ ret.out.error.exc = "KeyError"
          /\ ret.out.error.site = "point")

\* C20: hypervolume rejects every objective list whose length is not 2; for
\* 2 objectives it is 0 for an empty frontier, (ref_x - x) * (ref_y - y) for
\* a single point (x, y), and non-negative whenever every frontier point is
\* no worse than the reference point on both objectives.
C20_HypervolumeIsDominatedArea ==
    ret.op = "hypervolume" =>
        LET pareto_front == ret.args.pareto_front
            objectives == ret.args.objectives
            reference_point == ret.args.reference_point
            x(i) == pareto_front[i][objectives[1]]
            y(i) == pareto_front[i][objectives[2]]
            ref_x == reference_point[objectives[1]]
            ref_y == reference_point[objectives[2]]
            complete == /\ Range(objectives) \subseteq DOMAIN reference_point
                        /\ \A i \in 1..Len(pareto_front) :
                              Range(objectives) \subseteq DOMAIN pareto_front[i]
        IN /\ Len(objectives) # 2 =>
                 ret.out.raised /\ ret.out.error.exc = "NotImplementedError"
           /\ (Len(objectives) = 2 /\ pareto_front = <<>>) =>
                 ~ret.out.raised /\ ret.out.value = 0
           /\ (Len(objectives) = 2 /\ Len(pareto_front) = 1 /\ complete) =>
                 /\ ~ret.out.raised
                 /\ ret.out.value = (ref_x - x(1)) * (ref_y - y(1))
           /\ (/\ Len(objectives) = 2
               /\ complete
               /\ \A i \in 1..Len(pareto_front) : x(i) <= ref_x /\ y(i) <= ref_y) =>
                 ~ret.out.raised /\ ret.out.value >= 0

\* the value of objective obj at a point, 0 when the point lacks it
ValueOrZero(point, obj) == IF obj \in DOMAIN point THEN point[obj] ELSE 0

\* the sort order of the points for objective obj: the positions in
\* ascending order of value, equal values in position order
SortOrder(points, obj) ==
    SortedIndices([i \in 1..Len(points) |-> ValueOrZero(points[i], obj)])

\* the difference between the largest and the smallest value of obj
RangeOf(points, obj) ==
    LET values == {ValueOrZero(points[i], obj) : i \in 1..Len(points)}
    IN (CHOOSE v \in values : \A w \in values : w <= v)
       - (CHOOSE v \in values : \A w \in values : v <= w)

\* position ix is at an end of the sort order of objective obj
AtEnd(points, obj, ix) ==
    ix \in {SortOrder(points, obj)[1], SortOrder(points, obj)[Len(points)]}

\* C21: crowding_distance gives every point infinite distance when there
\* are at most 2 points; with 3 or more points a point's distance is
\* infinite iff it is at an end of the sort order of some objective, and
\* otherwise is the sum, over the objectives whose range is not 0 in list
\* order, of (next - prev) / range; no term is negative; the call returns
\* whenever every point has every objective.
C21_CrowdingDistance ==
    ret.op = "crowding_distance" =>
        LET points == ret.args.configurations
            objectives == ret.args.objectives
            n == Len(points)
            out == ret.out.value
            counted == SelectSeq(objectives,
                                 LAMBDA obj : RangeOf(points, obj) # 0)
            Term(obj, ix) ==
                LET order == SortOrder(points, obj)
                    r == CHOOSE i \in 1..n : order[i] = ix
                IN Fraction(points[order[r + 1]][obj] - points[order[r - 1]][obj],
                            RangeOf(points, obj))
        IN /\ (\A i \in 1..n : Range(objectives) \subseteq DOMAIN points[i]) =>
                 ~ret.out.raised
           /\ ~ret.out.raised =>
                 /\ DOMAIN out = 1..n
                 /\ n <= 2 => \A ix \in 1..n : out[ix].inf
                 /\ n >= 3 =>
                       \A ix \in 1..n :
                          /\ out[ix].inf <=>
                                \E k \in 1..Len(objectives) :
                                   AtEnd(points, objectives[k], ix)
                          /\ ~out[ix].inf =>
                                /\ out[ix].terms =
                                      [k \in 1..Len(counted) |-> Term(counted[k], ix)]
                                /\ \A k \in 1..Len(out[ix].terms) :
                                      /\ out[ix].terms[k].num >= 0
                                      /\ out[ix].terms[k].den > 0

\* C21 witness: three points, the second interior for both objectives, its
\* distance the sum of two terms
C21_Witness ==
    /\ ret.op = "crowding_distance"
    /\ ~ret.out.raised
    /\ Len(ret.args.configurations) = 3
    /\ Len(ret.args.objectives) = 2
    /\ ~ret.out.value[2].inf
    /\ Len(ret.out.value[2].terms) = 2
    /\ ret.out.value[2].terms[1].num > 0

----------------------------------------------------------------------------
(* The quantitative semantics of core/robustness.py and the signals the    *)
(* extractor builds, as calls of pure functions                            *)

MaxSamples == 2
MaxTime == 2
MaxCycles == 3

Comparisons == {"<", "<=", ">", ">="}

\* lists of samples (time, value)
Signals == ListsUpTo((0..MaxTime) \X (1..MaxValue), MaxSamples)

Thresholds == 0..(MaxValue + 1)

\* no interval, or (start, end)
TimeIntervals == {<<>>} \cup ((0..(MaxTime + 1)) \X (0..(MaxTime + 1)))

\* the calls of temporal_robustness_always and temporal_robustness_eventually
TemporalRobustnessCall ==
    \E signal \in Signals, threshold \in Thresholds,
       comparison \in Comparisons, time_interval \in TimeIntervals :
       ret = Call("temporal_robustness",
                  [signal |-> signal, threshold |-> threshold,
                   comparison |-> comparison, time_interval |-> time_interval])

\* statistics with one scalar metric, with and without global_cycles
ScalarStats ==
    [latency : 1..MaxValue, global_cycles : 0..MaxCycles] \cup [latency : 1..MaxValue]

\* the extraction of a statistics record followed by a bounded query
ExtractedRobustnessCall ==
    \E stats_dict \in ScalarStats, threshold \in Thresholds,
       comparison \in Comparisons, time_interval \in TimeIntervals :
       ret = Call("extracted_robustness",
                  [stats_dict |-> stats_dict, threshold |-> threshold,
                   comparison |-> comparison, time_interval |-> time_interval])

RobustnessCall ==
    \/ TemporalRobustnessCall
    \/ ExtractedRobustnessCall

RobustnessInit ==
    /\ rtamt_installed = TRUE
    /\ parsed = [id \in SpecIds |-> FALSE]
    /\ constraints = <<>>
    /\ results_cache = <<>>
    /\ pc = "idle"
    /\ hw_configs = <<>>
    /\ idx = 1
    /\ results = <<>>
    /\ sims = <<>>
    /\ specifications = <<>>
    /\ mon_results = None
    /\ mon_evaluated = FALSE
    /\ last_ok = NoStats
    /\ tasks = NoTasks
    /\ RobustnessCall

\* temporal_robustness_always and temporal_robustness_eventually on the
\* same signal, predicate and interval
TemporalRobustness ==
    /\ Pending("temporal_robustness")
    /\ LET a == ret.args
       IN ret' = [op |-> "temporal_robustness", args |-> a,
                  out |-> [always |-> temporal_robustness_always(
                                          a.signal, a.threshold, a.comparison,
                                          a.time_interval),
                           eventually |-> temporal_robustness_eventually(
                                          a.signal, a.threshold, a.comparison,
                                          a.time_interval)]]
    /\ StaticCall

\* SignalExtractor._extract_global_signals, then the two temporal
\* robustness functions on the latency signal
ExtractedRobustness ==
    /\ Pending("extracted_robustness")
    /\ LET a == ret.args
           signal == _extract_global_signals(a.stats_dict)["latency"]
       IN ret' = [op |-> "extracted_robustness", args |-> a,
                  out |-> [signal |-> signal,
                           always |-> temporal_robustness_always(
                                          signal, a.threshold, a.comparison,
                                          a.time_interval),
                           eventually |-> temporal_robustness_eventually(
                                          signal, a.threshold, a.comparison,
                                          a.time_interval)]]
    /\ StaticCall

RobustnessNext ==
    \/ TemporalRobustness
    \/ ExtractedRobustness

RobustnessSpec == RobustnessInit /\ [][RobustnessNext]_vars

----------------------------------------------------------------------------
(* Properties of the temporal robustness functions, under RobustnessSpec *)

\* threshold - value for < and <=, value - threshold for > and >=
DistanceOf(value, threshold, comparison) ==
    IF comparison \in {"<", "<="} THEN threshold - value ELSE value - threshold

\* the positions of the samples whose timestamp lies in the window
InWindow(signal, time_interval) ==
    {k \in 1..Len(signal) :
        \/ time_interval = <<>>
        \/ time_interval[1] <= signal[k][1] /\ signal[k][1] <= time_interval[2]}

\* C22: always-robustness is the minimum and eventually-robustness the
\* maximum of the distance over the samples whose timestamp lies in the
\* window, and always-robustness <= eventually-robustness for the same
\* predicate, signal and window, also when the window holds no sample.
C22_AlwaysIsMinEventuallyIsMax ==
    ret.op = "temporal_robustness" =>
        LET a == ret.args
            W == InWindow(a.signal, a.time_interval)
            d(k) == DistanceOf(a.signal[k][2], a.threshold, a.comparison)
        IN /\ ret.out.always <= ret.out.eventually
           /\ W # {} =>
                /\ \E k \in W : ret.out.always = d(k)
                /\ \A k \in W : ret.out.always <= d(k)
                /\ \E k \in W : ret.out.eventually = d(k)
                /\ \A k \in W : ret.out.eventually >= d(k)

\* a window that keeps one sample and drops a sample of smaller distance
C22_Witness ==
    /\ ret.op = "temporal_robustness"
    /\ ret.args.time_interval # <<>>
    /\ LET a == ret.args
           W == InWindow(a.signal, a.time_interval)
       IN /\ W # {}
          /\ \E k \in 1..Len(a.signal) \ W :
                DistanceOf(a.signal[k][2], a.threshold, a.comparison)
                    < ret.out.always

\* a window that holds no sample of a non-empty signal
C22_EmptyWindow ==
    /\ ret.op = "temporal_robustness"
    /\ ret.args.signal # <<>>
    /\ InWindow(ret.args.signal, ret.args.time_interval) = {}
    /\ ret.out.always = 0
    /\ ret.out.eventually = 0

\* C23: a scalar metric becomes a constant signal of exactly global_cycles
\* samples with timestamps 0 .. global_cycles - 1, and its always- and
\* eventually-robustness under any time bound equal the distance of the
\* scalar from the threshold.
C23_BoundNeverMatters ==
    (ret.op = "extracted_robustness" /\ "global_cycles" \in DOMAIN ret.args.stats_dict) =>
        LET a == ret.args
            scalar == a.stats_dict["latency"]
            global_cycles == a.stats_dict["global_cycles"]
        IN /\ Len(ret.out.signal) = global_cycles
           /\ \A k \in 1..Len(ret.out.signal) :
                 ret.out.signal[k] = <<k - 1, scalar>>
           /\ ret.out.always = DistanceOf(scalar, a.threshold, a.comparison)
           /\ ret.out.eventually = DistanceOf(scalar, a.threshold, a.comparison)

\* the shape of the extracted signal alone
C23_ConstantSignal ==
    (ret.op = "extracted_robustness" /\ "global_cycles" \in DOMAIN ret.args.stats_dict) =>
        /\ Len(ret.out.signal) = ret.args.stats_dict["global_cycles"]
        /\ \A k \in 1..Len(ret.out.signal) :
              ret.out.signal[k] = <<k - 1, ret.args.stats_dict["latency"]>>

\* a bound past the last sample of a signal that has samples
C23_BoundPastTheSignal ==
    /\ ret.op = "extracted_robustness"
    /\ ret.out.signal # <<>>
    /\ ret.args.time_interval # <<>>
    /\ InWindow(ret.out.signal, ret.args.time_interval) = {}
    /\ ret.out.always = 0
    /\ DistanceOf(ret.args.stats_dict["latency"], ret.args.threshold,
                  ret.args.comparison) # 0

----------------------------------------------------------------------------
(* Properties of ranking, filtering and export on the results of a run *)

IndexPermutations(n) ==
    {q \in [1..n -> 1..n] : \A a, b \in 1..n : a # b => q[a] # q[b]}

\* sum(robustness_i * weight_i) / sum(weight_i) over the per-spec results,
\* with weight 1 for a name without a weight and 0 for a zero total
WeightedScore(result, spec_weights) ==
    LET per_spec == IF "stl_results" \in DOMAIN result
                    THEN result.stl_results ELSE <<>>
        w(k) == IF per_spec[k].name \in DOMAIN spec_weights
                THEN spec_weights[per_spec[k].name] ELSE 1
        total == SumSeq([k \in 1..Len(per_spec) |-> w(k)])
    IN IF total = 0 THEN [num |-> 0, den |-> 1]
       ELSE [num |-> SumSeq([k \in 1..Len(per_spec) |->
                                per_spec[k].robustness * w(k)]),
             den |-> total]

\* C24: rank_by_weighted_robustness returns a permutation of its input in
\* non-increasing order of the weighted score, where a specification
\* without a weight has weight 1 and a zero total weight gives score 0;
\* results of equal score keep their input order.
C24_WeightedRanking ==
    ret.op = "rank_by_weighted_robustness" =>
        LET input == ret.args.results
            w == ret.args.spec_weights
            n == Len(input)
        IN /\ Len(ret.out) = n
           /\ \E q \in IndexPermutations(n) :
                /\ \A r \in 1..n : ret.out[r] = input[q[r]]
                /\ \A a, b \in 1..n : a < b =>
                      /\ WeightedScore(ret.out[a], w).num * WeightedScore(ret.out[b], w).den
                            >= WeightedScore(ret.out[b], w).num * WeightedScore(ret.out[a], w).den
                      /\ (WeightedScore(ret.out[a], w).num * WeightedScore(ret.out[b], w).den
                            = WeightedScore(ret.out[b], w).num * WeightedScore(ret.out[a], w).den)
                         => q[a] < q[b]

\* two results put in the other order, one of them with a specification
\* that has no weight
C24_Witness ==
    /\ ret.op = "rank_by_weighted_robustness"
    /\ Len(ret.out) = 2
    /\ ret.out[1] = ret.args.results[2]
    /\ ret.out[1] # ret.out[2]
    /\ "stl_results" \in DOMAIN ret.out[1]
    /\ \E k \in 1..Len(ret.out[1].stl_results) :
          ret.out[1].stl_results[k].name \notin DOMAIN ret.args.spec_weights
    /\ WeightedScore(ret.out[1], ret.args.spec_weights).num # 0

\* every weight zero: the score is 0 and the input order is kept
C24_ZeroTotalWeight ==
    /\ ret.op = "rank_by_weighted_robustness"
    /\ Len(ret.out) = 2
    /\ DOMAIN ret.args.spec_weights = {"max_latency", "min_pe_utilization"}
    /\ \A name \in DOMAIN ret.args.spec_weights : ret.args.spec_weights[name] = 0
    /\ \E k \in 1..2 : /\ "stl_results" \in DOMAIN ret.out[k]
                       /\ ret.out[k].stl_results # <<>>
                       /\ ret.out[k].min_robustness # 0
    /\ ret.out = ret.args.results

\* the positions of the results whose satisfies_all flag is true
Satisfying(list) == {k \in 1..Len(list) : list[k].satisfies_all}

\* list restricted to the positions in keep, in list order
Restricted(list, keep) ==
    [i \in 1..Cardinality(keep) |->
        list[CHOOSE k \in keep : Cardinality({j \in keep : j <= k}) = i]]

\* C26: filter_satisfying and filter_satisfying_all return, in original
\* order, exactly the results whose satisfies_all flag is true; the count
\* of kept plus the count of results with a false flag is len(R); failure
\* sentinels are excluded and R is not modified.
C26_FilterKeepsExactlyTheSatisfying ==
    ret.op = "filter_satisfying" =>
        \A kept \in {ret.out.filter_satisfying, ret.out.filter_satisfying_all} :
            /\ kept = Restricted(ret.args, Satisfying(ret.args))
            /\ Len(kept) + Cardinality({k \in 1..Len(ret.args) :
                                           ~ret.args[k].satisfies_all})
                  = Len(ret.args)
            /\ \A i \in 1..Len(kept) : "error" \notin DOMAIN kept[i]
            /\ ret.out.results = ret.args

\* a list of a satisfying result and a sentinel, in any order
C26_Witness ==
    /\ ret.op = "filter_satisfying"
    /\ Len(ret.args) = 2
    /\ \E k \in 1..2 : "error" \in DOMAIN ret.args[k]
    /\ Len(ret.out.filter_satisfying) = 1

\* a normalised term: a number between 0 and 1
InUnitInterval(x) ==
    /\ DOMAIN x = {"num", "den"}
    /\ 0 <= x.num
    /\ x.num <= x.den

\* C25: select_best_tradeoff returns None for an empty list and otherwise
\* a member of the input that maximises the weighted sum of the normalised
\* robustness and performance terms, each between 0 and 1; this holds for
\* every list explore_design_space returns, sentinels included.
C25_BestTradeoff ==
    ret.op = "select_best_tradeoff" =>
        LET input == ret.args.results
            n == Len(input)
        IN IF input = <<>> THEN ret.out.value = None
           ELSE /\ \E k \in 1..n : ret.out.value = input[k]
                /\ (\E k \in 1..n : "stats" \in DOMAIN input[k]) =>
                      /\ \A k \in 1..n :
                            /\ InUnitInterval(ret.out.rob_norm[k])
                            /\ "stats" \in DOMAIN input[k]
                                  => InUnitInterval(ret.out.perf_norm[k])
                      /\ \E k \in 1..n :
                            /\ ret.out.value = input[k]
                            /\ \A j \in 1..n :
                                  ret.out.score[j].num * ret.out.score[k].den
                                     <= ret.out.score[k].num * ret.out.score[j].den

\* the same on the lists that hold no failure sentinel
C25_BestTradeoffWithoutSentinels ==
    (/\ ret.op = "select_best_tradeoff"
     /\ \A k \in 1..Len(ret.args.results) : "error" \notin DOMAIN ret.args.results[k])
        => C25_BestTradeoff

\* a successful result next to a sentinel: every score is nan
C25_SentinelSpoilsTheScores ==
    /\ ret.op = "select_best_tradeoff"
    /\ Len(ret.args.results) = 2
    /\ "stats" \in DOMAIN ret.args.results[1]
    /\ "error" \in DOMAIN ret.args.results[2]
    /\ ret.out.score = <<NaN, NaN>>

\* the ranked entries of an exported file, in file order
RankedEntries(file) == SelectSeq(file, LAMBDA l : l.line = "Rank")

\* C30: export_results, txt and csv, succeeds on every list
\* explore_design_space returns and writes one ranked entry per result, in
\* list order, with rank i + 1 for the result at index i.
C30_ExportWritesEveryResult ==
    (ret.op = "export_results" /\ ret.args.format \in {"txt", "csv"}) =>
        /\ ~ret.out.raised
        /\ LET ranked == RankedEntries(ret.out.file)
           IN /\ Len(ranked) = Len(ret.args.results)
              /\ \A k \in 1..Len(ranked) :
                    /\ ranked[k].rank = k
                    /\ ranked[k].config_name = ret.args.results[k].config_name

\* the same on the lists that hold no failure sentinel
C30_ExportWithoutSentinels ==
    (/\ ret.op = "export_results"
     /\ \A k \in 1..Len(ret.args.results) : "error" \notin DOMAIN ret.args.results[k])
        => C30_ExportWritesEveryResult

\* the export of a successful result followed by a sentinel stops with a
\* KeyError inside the second entry
C30_SentinelStopsTheExport ==
    /\ ret.op = "export_results"
    /\ ret.args.format = "txt"
    /\ Len(ret.args.results) = 2
    /\ "error" \in DOMAIN ret.args.results[2]
    /\ ret.out.raised
    /\ ret.out.exc = "KeyError"
    /\ ret.out.key = "avg_robustness"
    /\ Len(RankedEntries(ret.out.file)) = 2

----------------------------------------------------------------------------
(* Properties of a failing and of a concurrent evaluate *)

\* C28: if Monitor.evaluate raises, the stored result list and the
\* evaluated flag are as they were before the call: an unevaluated monitor
\* stays unevaluated and an evaluated one keeps its earlier results.
C28_FailedEvaluateKeepsTheResults ==
    [][(ret'.op = "evaluate" /\ ret'.out.raised) =>
          /\ mon_evaluated' = mon_evaluated
          /\ mon_evaluated => mon_results' = mon_results
          /\ last_ok' = last_ok]_vars

\* an evaluated monitor after a call that failed at its second
\* specification, the first one's result already built
C28_Witness ==
    /\ ret.op = "evaluate"
    /\ ret.out.raised
    /\ Len(ret.out.value) = 1
    /\ mon_evaluated
    /\ Len(mon_results) = 2
    /\ mon_results = ResultsFor(last_ok)
    /\ last_ok # ret.args

----------------------------------------------------------------------------
(* Two tasks that each evaluate a statistics record and then issue a       *)
(* derived query, on one Monitor or on a fresh Monitor each                *)

Tasks == {1, 2}

Other(t) == 3 - t

\* the Monitor object task t works on: the single shared instance, or the
\* one the task built for itself
MonitorOf_OneForAll(t) == 1

MonitorOf(t) == IF tasks.shared THEN 1 ELSE t

\* the tasks evaluate different records; __init__ of a Monitor sets
\* self.results = None and self._evaluated = False
ConcurrentInit ==
    /\ rtamt_installed = TRUE
    /\ parsed = [id \in SpecIds |-> FALSE]
    /\ constraints = <<>>
    /\ results_cache = <<>>
    /\ pc = "idle"
    /\ hw_configs = <<>>
    /\ idx = 1
    /\ results = <<>>
    /\ sims = <<>>
    /\ specifications \in {<<"sp_lat">>, <<"sp_lat", "sp_util">>}
    /\ mon_results = None
    /\ mon_evaluated = FALSE
    /\ last_ok = NoStats
    /\ ret = NoCall
    /\ \E shared \in BOOLEAN,
          stats \in {st \in [Tasks -> {StatsFast, StatsSlow, StatsBare}] :
                        st[1] # st[2]} :
          tasks = [shared |-> shared,
                   stats |-> stats,
                   monitors |-> [m \in Tasks |->
                                    [results |-> None, evaluated |-> FALSE]],
                   at |-> [t \in Tasks |-> "evaluate"],
                   local |-> [t \in Tasks |-> <<>>],
                   query |-> [t \in Tasks |-> ""],
                   answer |-> [t \in Tasks |-> None]]

TaskUnchanged ==
    UNCHANGED <<rtamt_installed, constraints, results_cache, pc, hw_configs,
                idx, results, sims, specifications, mon_results, mon_evaluated,
                last_ok, ret>>

\* evaluate up to the end of its loop: the list is built in the local
\* variable results; a raise ends the task
TaskEvaluate(t) ==
    /\ tasks.at[t] = "evaluate"
    /\ LET m == MonitorEvaluate(specifications, tasks.stats[t], parsed,
                                rtamt_installed)
       IN /\ parsed' = m.parsed
          /\ tasks' = [tasks EXCEPT !.local[t] = m.results,
                                    !.at[t] = IF m.raised THEN "raised"
                                              ELSE "store results"]
    /\ TaskUnchanged

\* self.results = results
TaskStoreResults(t) ==
    /\ tasks.at[t] = "store results"
    /\ tasks' = [tasks EXCEPT !.monitors[MonitorOf(t)].results = tasks.local[t],
                              !.at[t] = "store flag"]
    /\ UNCHANGED parsed
    /\ TaskUnchanged

\* self._evaluated = True, and evaluate returns
TaskStoreFlag(t) ==
    /\ tasks.at[t] = "store flag"
    /\ tasks' = [tasks EXCEPT !.monitors[MonitorOf(t)].evaluated = TRUE,
                              !.at[t] = "query"]
    /\ UNCHANGED parsed
    /\ TaskUnchanged

\* the derived query q on the task's Monitor
TaskQuery(t, q) ==
    /\ tasks.at[t] = "query"
    /\ LET monitor == tasks.monitors[MonitorOf(t)]
       IN tasks' = [tasks EXCEPT !.query[t] = q,
                                 !.answer[t] = Query(q, monitor.evaluated,
                                                     monitor.results,
                                                     specifications),
                                 !.at[t] = "done"]
    /\ UNCHANGED parsed
    /\ TaskUnchanged

ConcurrentNext ==
    \/ \E t \in Tasks : TaskEvaluate(t)
    \/ \E t \in Tasks : TaskStoreResults(t)
    \/ \E t \in Tasks : TaskStoreFlag(t)
    \/ \E t \in Tasks, q \in Queries : TaskQuery(t, q)

ConcurrentSpec == ConcurrentInit /\ [][ConcurrentNext]_vars

\* what query q answers from the record stats_dict
AnswerFrom(q, stats_dict) == QueryBody(q, ResultsFor(stats_dict), specifications)

\* C27: when two tasks evaluate different records and then query, a single
\* shared Monitor lets some interleaving answer a task's query from the
\* other task's record (the witness), while with one fresh Monitor per task
\* every query is answered from the task's own record.
C27_FreshMonitorsAnswerFromOwnRecord ==
    \A t \in Tasks :
        tasks.at[t] = "done" =>
            IF tasks.shared
            THEN tasks.answer[t] \in {AnswerFrom(tasks.query[t], tasks.stats[t]),
                                      AnswerFrom(tasks.query[t], tasks.stats[Other(t)])}
            ELSE tasks.answer[t] = AnswerFrom(tasks.query[t], tasks.stats[t])

\* one Monitor for both tasks: a task's query answered from the other
\* task's record, and differently from what its own record gives
C27_Witness ==
    /\ tasks.shared
    /\ \E t \in Tasks :
          /\ tasks.at[t] = "done"
          /\ tasks.query[t] = "get_summary"
          /\ tasks.answer[t] = AnswerFrom("get_summary", tasks.stats[Other(t)])
          /\ tasks.answer[t] # AnswerFrom("get_summary", tasks.stats[t])

\* a fresh Monitor each: both queries answered although the evaluations
\* and stores of the two tasks were interleaved
C27_FreshWitness ==
    /\ ~tasks.shared
    /\ \A t \in Tasks :
          /\ tasks.at[t] = "done"
          /\ tasks.query[t] = "get_summary"
          /\ ~tasks.answer[t].raised
    /\ tasks.answer[1] # tasks.answer[2]

----------------------------------------------------------------------------
(* The built-in constraint factories over global metrics, and the signals  *)
(* the Monitor looks up for the Specification each one builds              *)

\* signal_names of the Specification each factory of PerformanceConstraints
\* builds
PerformanceConstraints ==
    [max_latency |-> <<"latency">>,
     min_utilization |-> <<"avg_utilization">>,
     min_throughput |-> <<"avg_throughput">>,
     bounded_latency |-> <<"latency">>,
     balanced_utilization |-> <<"min_utilization", "max_utilization">>]

\* the same for PowerConstraints
PowerConstraints ==
    [max_energy |-> <<"energy">>,
     max_edp_latency |-> <<"edp_latency">>,
     max_edp_cycles |-> <<"edp_cycles">>]

\* the same for ResourceConstraints
ResourceConstraints == [max_area |-> <<"area">>]

\* the same for CompositeConstraints
CompositeConstraints ==
    [pareto_optimal |-> <<"latency", "energy", "area">>,
     performance_power_trade_off |-> <<"latency", "edp_latency", "avg_utilization">>]

GlobalFactories ==
    Update(Update(PerformanceConstraints, PowerConstraints),
           Update(ResourceConstraints, CompositeConstraints))

\* statistics records, among them those that carry every global metric,
\* the average utilization included, and one compute block
SchemaStats ==
    {StatsFast, StatsSlow, StatsBare, StatsIdle} \cup
    {[global_cycles |-> c, latency |-> v, energy |-> v, edp_latency |-> v,
      edp_cycles |-> v, area |-> v, avg_throughput |-> v,
      min_utilization |-> v, max_utilization |-> v, avg_utilization |-> v,
      compute_stats |-> <<[name |-> "pe", utilization |-> v]>>] :
        c \in 1..MaxCycles, v \in 1..MaxValue}

\* a Monitor over the Specification of one factory is about to evaluate a
\* record
RequiredSignalsCall ==
    \E factory \in DOMAIN GlobalFactories, stats_dict \in SchemaStats :
       ret = Call("required_signals",
                  [factory |-> factory, stats_dict |-> stats_dict])

FactoryInit ==
    /\ rtamt_installed = TRUE
    /\ parsed = [id \in SpecIds |-> FALSE]
    /\ constraints = <<>>
    /\ results_cache = <<>>
    /\ pc = "idle"
    /\ hw_configs = <<>>
    /\ idx = 1
    /\ results = <<>>
    /\ sims = <<>>
    /\ specifications = <<>>
    /\ mon_results = None
    /\ mon_evaluated = FALSE
    /\ last_ok = NoStats
    /\ tasks = NoTasks
    /\ RequiredSignalsCall

\* evaluate: required_signals = {name: all_signals[name] for name in
\* spec.signal_names}; the first name that is no key of all_signals raises
\* KeyError, which evaluate turns into ValueError
required_signals(signal_names, all_signals) ==
    LET absent == SelectSeq(signal_names, LAMBDA name : name \notin DOMAIN all_signals)
    IN IF absent # <<>>
       THEN [raised |-> TRUE, exc |-> "ValueError",
             site |-> "Required signal not available", signal |-> absent[1]]
       ELSE [raised |-> FALSE,
             value |-> [name \in Range(signal_names) |-> all_signals[name]]]

\* the start of OfflineSTLMonitor.evaluate on the Specification a factory
\* built: extraction, then the lookup of the declared signals
RequiredSignals ==
    /\ Pending("required_signals")
    /\ ret' = [op |-> "required_signals", args |-> ret.args,
               out |-> required_signals(GlobalFactories[ret.args.factory],
                                        extract_signals(ret.args.stats_dict))]
    /\ StaticCall

FactoryNext == RequiredSignals

FactorySpec == FactoryInit /\ [][FactoryNext]_vars

\* C29: every signal name declared by a built-in global-metric constraint
\* factory is produced by the extractor for a statistics record that
\* follows the schema, so a Monitor over such a constraint never fails with
\* a missing signal.
C29_DeclaredSignalsAreExtracted ==
    ret.op = "required_signals" =>
        /\ Range(GlobalFactories[ret.args.factory])
              \subseteq get_available_signals(ret.args.stats_dict)
        /\ ~ret.out.raised

\* the same for the factories that do not declare avg_utilization
C29_FactoriesWithoutAverageUtilization ==
    (/\ ret.op = "required_signals"
     /\ ret.args.factory \notin {"min_utilization", "performance_power_trade_off"})
        => C29_DeclaredSignalsAreExtracted

\* min_utilization on a record that carries avg_utilization: the signal is
\* not extracted and the lookup fails
C29_AverageUtilizationIsMissing ==
    /\ ret.op = "required_signals"
    /\ ret.args.factory = "min_utilization"
    /\ "avg_utilization" \in DOMAIN ret.args.stats_dict
    /\ ret.out.raised
    /\ ret.out.signal = "avg_utilization"

====
